---------------------------- MODULE Spec2Model ----------------------------
(***************************************************************************)
(* A model of the booking store of resource-scheduler:                     *)
(*   src/src/models/booking.py              Booking, Booking.overlaps      *)
(*   src/src/algorithms/search_algorithms.py  binary_search                *)
(*   src/src/algorithms/scheduler.py        BookingScheduler               *)
(*                                                                         *)
(* Every method of BookingScheduler is an operator from the store's fields *)
(* (and the call's arguments) to the fields after the call and the value   *)
(* returned; an action applies one method to the current state.  List      *)
(* indices are Python's (0-based); a list l holds l[i] at Sequence         *)
(* position i + 1.                                                         *)
(*                                                                         *)
(* Left out: the "timestamp", "linear_time_ms" and "binary_time_ms" fields *)
(* of a run-history entry (clock readings), and the insertion order of the *)
(* dict bookings_by_room_date, which only find_booking and delete_booking  *)
(* read, to take the first booking that carries an id (IdsDistinct shows   *)
(* there is at most one).                                                  *)
(***************************************************************************)
EXTENDS Integers, Sequences, FiniteSets, TLC

VARIABLES
    bookings_by_room_date,    \* dict (room, date) -> list of Booking
    next_id,                  \* int
    search_method,            \* "binary" | "linear"
    search_history,           \* list of run entries
    last_search_comparisons,  \* int
    ret                       \* the last call and the value it returned

vars == <<bookings_by_room_date, next_id, search_method, search_history,
          last_search_comparisons, ret>>

---------------------------------------------------------------------------
(* Program constants *)

DAY_START_HOUR == 7
DAY_END_HOUR == 19

AllRooms == <<"Meeting Room A", "Meeting Room B", "Meeting Room C",
              "Meeting Room D", "Meeting Room E">>

---------------------------------------------------------------------------
(* Bounds of the model *)

\* calls that log a run stop once the run history holds MaxRuns entries
MaxRuns == 3

\* the sequences handed to the searches hold up to MaxLen items
MaxLen == 3
\* the items of a sorted sequence, and the items searched for
SearchValues == 0..MaxLen
SearchItems == (-1)..(MaxLen + 1)
\* the benchmarks run on sequences of up to MaxSize items
MaxSize == 5
\* the sizes handed to the benchmarks, the lists of sizes, and the targets
BenchSizes == 0..MaxSize
SizeLists == UNION {[1..k -> BenchSizes] : k \in 0..2}
BenchTargets == (-1)..(MaxSize + 1)
\* ascending sequences (equal neighbours allowed)
SortedSequences ==
    {q \in UNION {[1..n -> SearchValues] : n \in 0..MaxLen} :
         \A i \in 1..(Len(q) - 1) : q[i] <= q[i + 1]}
\* sequences in any order, for the linear search
AnySequences == UNION {[1..n -> 0..2] : n \in 0..MaxLen}

\* the store is configured with the first two of the program's rooms
rooms == SubSeq(AllRooms, 1, 2)
Rooms == {rooms[i] : i \in 1..Len(rooms)}
UnknownRoom == "Room Z"
Names == {"Team Sync"}
\* dates are <<year, month, day>>
Dates == {<<2024, 3, 4>>}
\* hour arguments are drawn from the first hours of the working day
Hours == DAY_START_HOUR..(DAY_START_HOUR + 3)
\* the hour pairs the dialogs pass on (start < end)
ValidSlots == {s \in Hours \X Hours : s[1] < s[2]}
\* every hour pair the methods accept
AnySlots == Hours \X Hours
\* the hour pairs of the calls made while the selector is switched: an empty
\* range, the two hours after it, and each of those hours alone
SelectorSlots ==
    {<<DAY_START_HOUR, DAY_START_HOUR>>,
     <<DAY_START_HOUR, DAY_START_HOUR + 2>>,
     <<DAY_START_HOUR, DAY_START_HOUR + 1>>,
     <<DAY_START_HOUR + 1, DAY_START_HOUR + 2>>}
\* the dates and hour pairs of the bookings that are listed: the later date
\* has the smaller day of the month
ListDates == {<<2024, 2, 29>>, <<2024, 3, 4>>}
ListSlots == {<<DAY_START_HOUR, DAY_START_HOUR + 1>>,
              <<DAY_START_HOUR + 1, DAY_START_HOUR + 2>>}
\* the hour pairs of the calls whose runs are followed in the history: two
\* hours that touch and the range that covers both
LogSlots == {s \in ValidSlots : s[2] <= DAY_START_HOUR + 2}
\* the ids a call may name
Ids == 1..(MaxRuns + 1)
\* the dates a query may name: the date of the bookings and the day after
QueryDates == Dates \cup {<<2024, 3, 5>>}
\* the hour pairs a request for suggestions may name: requests of up to
\* thirteen hours, those with start >= end among them
RequestSlots ==
    Hours \X {DAY_START_HOUR + 1, DAY_START_HOUR + 3, DAY_END_HOUR,
              DAY_END_HOUR + 1}
\* the values of max_suggestions a request may name
MaxSuggestions == 0..2
\* the dates of the bookings whose utilisation is asked for: two days of a
\* month of 30 days and a day of the next month
UtilDates == {<<2023, 4, 3>>, <<2023, 4, 4>>, <<2023, 5, 3>>}
\* the months a utilisation query may name: that month, the next, the same
\* month a year later, and two Februaries
UtilMonths == {<<2023, 4>>, <<2023, 5>>, <<2024, 4>>, <<2023, 2>>, <<2024, 2>>}
\* the hour pairs of those bookings: two single hours, nine hours, the
\* whole working day, a whole day of 24 hours, and a pair with end < start
UtilSlots ==
    {<<DAY_START_HOUR, DAY_START_HOUR + 1>>,
     <<DAY_START_HOUR + 1, DAY_START_HOUR + 2>>,
     <<DAY_START_HOUR, DAY_START_HOUR + 9>>,
     <<DAY_START_HOUR, DAY_END_HOUR>>,
     <<0, 24>>,
     <<DAY_END_HOUR, DAY_START_HOUR>>}

---------------------------------------------------------------------------
(* Booking (booking.py) *)

Booking(id, name, room, d, s, e) ==
    [booking_id |-> id, name |-> name, room |-> room, booking_date |-> d,
     start_hour |-> s, end_hour |-> e]

\* overlaps that compares one pair of hours only
overlaps_one_sided(self, other) ==
    /\ self.room = other.room
    /\ self.booking_date = other.booking_date
    /\ self.start_hour < other.end_hour

overlaps(self, other) ==
    /\ self.room = other.room
    /\ self.booking_date = other.booking_date
    /\ self.start_hour < other.end_hour
    /\ other.start_hour < self.end_hour

---------------------------------------------------------------------------
(* binary_search (search_algorithms.py): <<found index, insertion index,   *)
(* comparisons>>                                                           *)

\* binary_search that gives up one index at a time when the middle value is
\* too large (end_index = end_index - 1 in the place of mid - 1)
RECURSIVE binary_search_loop_slow(_, _, _, _, _)
binary_search_loop_slow(sequence, item, start_index, end_index, comparisons) ==
    IF start_index <= end_index
    THEN LET mid == (start_index + end_index) \div 2
             value == sequence[mid + 1]
         IN IF value = item
            THEN <<mid, mid, comparisons + 1>>
            ELSE IF value < item
                 THEN binary_search_loop_slow(sequence, item, mid + 1,
                                              end_index, comparisons + 1)
                 ELSE binary_search_loop_slow(sequence, item, start_index,
                                              end_index - 1, comparisons + 1)
    ELSE <<-1, start_index, comparisons>>

RECURSIVE binary_search_loop(_, _, _, _, _)
binary_search_loop(sequence, item, start_index, end_index, comparisons) ==
    IF start_index <= end_index
    THEN LET mid == (start_index + end_index) \div 2
             value == sequence[mid + 1]
         IN IF value = item
            THEN <<mid, mid, comparisons + 1>>
            ELSE IF value < item
                 THEN binary_search_loop(sequence, item, mid + 1, end_index,
                                         comparisons + 1)
                 ELSE binary_search_loop(sequence, item, start_index, mid - 1,
                                         comparisons + 1)
    ELSE <<-1, start_index, comparisons>>

\* the values <<start_index, end_index>> at each test of the while
\* condition of binary_search, the test that ends the loop included
RECURSIVE binary_search_trace(_, _, _, _)
binary_search_trace(sequence, item, start_index, end_index) ==
    IF start_index <= end_index
    THEN LET mid == (start_index + end_index) \div 2
             value == sequence[mid + 1]
         IN <<<<start_index, end_index>>>> \o
            (IF value = item
             THEN <<>>
             ELSE IF value < item
                  THEN binary_search_trace(sequence, item, mid + 1, end_index)
                  ELSE binary_search_trace(sequence, item, start_index,
                                           mid - 1))
    ELSE <<<<start_index, end_index>>>>

\* binary_search that starts at index 1
binary_search_from_one(sequence, item) ==
    binary_search_loop(sequence, item, 1, Len(sequence) - 1, 0)

binary_search(sequence, item) ==
    binary_search_loop(sequence, item, 0, Len(sequence) - 1, 0)

\* linear_search that does not count the comparison that finds the item
linear_search_uncounted_hit(sequence, item) ==
    IF \E i \in 1..Len(sequence) : sequence[i] = item
    THEN LET i == CHOOSE i \in 1..Len(sequence) :
                      /\ sequence[i] = item
                      /\ \A j \in 1..(i - 1) : sequence[j] # item
         IN <<i - 1, i - 1>>
    ELSE <<-1, Len(sequence)>>

\* the loop of linear_search from index on
RECURSIVE linear_search_loop(_, _, _, _)
linear_search_loop(sequence, item, index, comparisons) ==
    IF index < Len(sequence)
    THEN IF sequence[index + 1] = item
         THEN <<index, comparisons + 1>>
         ELSE linear_search_loop(sequence, item, index + 1, comparisons + 1)
    ELSE <<-1, comparisons>>

\* linear_search: <<found index, comparisons>>
linear_search(sequence, item) ==
    linear_search_loop(sequence, item, 0, 0)

---------------------------------------------------------------------------
(* utils/benchmark.py. The wall-clock times of the results are left out:   *)
(* an entry of compare_search_algorithms is [n, target], the size and the  *)
(* value time_function is called with for that size                        *)

\* list(range(n))
range_list(n) == [i \in 1..n |-> i - 1]

\* benchmark_searches that searches the first element
benchmark_searches_first(n) ==
    LET data == range_list(n)
    IN [linear_comparisons |-> linear_search(data, 0)[2],
        binary_comparisons |-> binary_search(data, 0)[3]]

benchmark_searches(n) ==
    LET data == range_list(n)
        target == n - 1
    IN [linear_comparisons |-> linear_search(data, target)[2],
        binary_comparisons |-> binary_search(data, target)[3]]

\* the loop of compare_search_algorithms from sizes[i] on; target is the
\* local variable, which the loop assigns
RECURSIVE compare_loop(_, _, _, _)
compare_loop(sizes, i, target, results) ==
    IF i > Len(sizes)
    THEN results
    ELSE LET n == sizes[i]
             clamped == IF target >= n THEN n - 1 ELSE target
         IN compare_loop(sizes, i + 1, clamped,
                         Append(results, [n |-> n, target |-> clamped]))

compare_search_algorithms(sizes, target) ==
    compare_loop(sizes, 1, target, <<>>)

---------------------------------------------------------------------------
(* Conflict helpers (scheduler.py): [conflicts, comps, idx]                *)

\* the insertion loop of _linear_conflicts with <= in the place of <: it
\* steps over the bookings that start with the candidate
RECURSIVE linear_idx_after_equal(_, _, _)
linear_idx_after_equal(blist, candidate, idx) ==
    IF idx < Len(blist) /\ blist[idx + 1].start_hour <= candidate.start_hour
    THEN linear_idx_after_equal(blist, candidate, idx + 1)
    ELSE idx

RECURSIVE linear_idx(_, _, _)
linear_idx(blist, candidate, idx) ==
    IF idx < Len(blist) /\ blist[idx + 1].start_hour < candidate.start_hour
    THEN linear_idx(blist, candidate, idx + 1)
    ELSE idx

_linear_conflicts(blist, candidate) ==
    [conflicts |-> SelectSeq(blist, LAMBDA b : overlaps(b, candidate)),
     comps |-> Len(blist),
     idx |-> linear_idx(blist, candidate, 0)]

\* scan_left without the early exit: it goes on to the front of the list
RECURSIVE scan_left_to_front(_, _, _, _, _)
scan_left_to_front(blist, candidate, i, conflicts, extra) ==
    IF i >= 0
    THEN scan_left_to_front(blist, candidate, i - 1,
                            IF overlaps(blist[i + 1], candidate)
                            THEN Append(conflicts, blist[i + 1])
                            ELSE conflicts,
                            extra + 1)
    ELSE [conflicts |-> conflicts, extra |-> extra]

\* scan_left that breaks on the start hour instead of the end hour, so it
\* stops at the first booking it meets
scan_left_breaks_on_start(blist, candidate, i, conflicts, extra) ==
    IF i >= 0
    THEN [conflicts |-> conflicts, extra |-> extra + 1]
    ELSE [conflicts |-> conflicts, extra |-> extra]

\* the leftward scan from index i: [conflicts, extra]
RECURSIVE scan_left(_, _, _, _, _)
scan_left(blist, candidate, i, conflicts, extra) ==
    IF i >= 0
    THEN LET b == blist[i + 1]
         IN IF b.end_hour <= candidate.start_hour
            THEN [conflicts |-> conflicts, extra |-> extra + 1]
            ELSE scan_left(blist, candidate, i - 1,
                           IF overlaps(b, candidate)
                           THEN Append(conflicts, b) ELSE conflicts,
                           extra + 1)
    ELSE [conflicts |-> conflicts, extra |-> extra]

\* scan_right that does not count the booking it breaks on
scan_right_uncounted_break(blist, candidate, i, conflicts, extra) ==
    LET stop == {j \in (i + 1)..Len(blist) :
                     blist[j].start_hour >= candidate.end_hour}
        last == IF stop = {} THEN Len(blist)
                ELSE (CHOOSE j \in stop : \A h \in stop : j <= h) - 1
    IN IF i < Len(blist)
       THEN [conflicts |-> conflicts \o
                 SelectSeq(SubSeq(blist, i + 1, last),
                           LAMBDA b : overlaps(b, candidate)),
             extra |-> extra + (last - i)]
       ELSE [conflicts |-> conflicts, extra |-> extra]

\* scan_right that returns at the first conflict it finds
scan_right_first_only(blist, candidate, i, conflicts, extra) ==
    LET hit == {j \in (i + 1)..Len(blist) :
                    \/ blist[j].start_hour >= candidate.end_hour
                    \/ overlaps(blist[j], candidate)}
    IN IF hit = {}
       THEN [conflicts |-> conflicts,
             extra |-> extra + (IF i < Len(blist) THEN Len(blist) - i ELSE 0)]
       ELSE LET j == CHOOSE j \in hit : \A h \in hit : j <= h
            IN [conflicts |-> IF blist[j].start_hour >= candidate.end_hour
                              THEN conflicts
                              ELSE Append(conflicts, blist[j]),
                extra |-> extra + (j - i)]

\* the rightward scan from index i: [conflicts, extra]
RECURSIVE scan_right(_, _, _, _, _)
scan_right(blist, candidate, i, conflicts, extra) ==
    IF i < Len(blist)
    THEN LET b == blist[i + 1]
         IN IF b.start_hour >= candidate.end_hour
            THEN [conflicts |-> conflicts, extra |-> extra + 1]
            ELSE scan_right(blist, candidate, i + 1,
                            IF overlaps(b, candidate)
                            THEN Append(conflicts, b) ELSE conflicts,
                            extra + 1)
    ELSE [conflicts |-> conflicts, extra |-> extra]

\* _binary_conflicts without the leftward scan
_binary_conflicts_right_only(blist, candidate) ==
    LET starts == [i \in 1..Len(blist) |-> blist[i].start_hour]
        found == binary_search(starts, candidate.start_hour)
        right == scan_right(blist, candidate, found[2], <<>>, 0)
    IN [conflicts |-> right.conflicts, comps |-> found[3] + right.extra,
        idx |-> found[2]]

_binary_conflicts(blist, candidate) ==
    LET starts == [i \in 1..Len(blist) |-> blist[i].start_hour]
        found == binary_search(starts, candidate.start_hour)
        idx == found[2]
        comps == found[3]
        left == scan_left(blist, candidate, idx - 1, <<>>, 0)
        right == scan_right(blist, candidate, idx, left.conflicts, left.extra)
    IN [conflicts |-> right.conflicts, comps |-> comps + right.extra,
        idx |-> idx]

---------------------------------------------------------------------------
(* Python list and dict operations                                         *)

\* l.append(x) in the place of l.insert(idx, x)
list_insert_appends(l, idx, x) == Append(l, x)

\* l.insert(idx, x) for 0 <= idx <= len(l)
list_insert(l, idx, x) ==
    SubSeq(l, 1, idx) \o <<x>> \o SubSeq(l, idx + 1, Len(l))

\* l.remove(x): drops the first element equal to x (x is in l wherever the
\* store calls it, see BucketsKeyed; a list without x is left alone here,
\* where Python raises ValueError)
list_remove(l, x) ==
    IF \E i \in 1..Len(l) : l[i] = x
    THEN LET i == CHOOSE i \in 1..Len(l) :
                      /\ l[i] = x
                      /\ \A j \in 1..(i - 1) : l[j] # x
         IN SubSeq(l, 1, i - 1) \o SubSeq(l, i + 1, Len(l))
    ELSE l

\* the sort left out
sort_by_start_skipped(l) == l

\* l.sort(key=lambda b: b.start_hour): a stable sort
RECURSIVE sort_by_start(_)
sort_by_start(l) ==
    IF l = <<>>
    THEN <<>>
    ELSE LET front == sort_by_start(SubSeq(l, 1, Len(l) - 1))
             x == l[Len(l)]
             p == Cardinality({i \in 1..Len(front) :
                                   front[i].start_hour <= x.start_hour})
         IN list_insert(front, p, x)

---------------------------------------------------------------------------
(* BookingScheduler (scheduler.py).  A store value st holds the fields a   *)
(* method reads and writes (method is search_method); a method returns     *)
(* [st, ok, conflicts]: the store after the call and the pair (success,    *)
(* conflicts) it returns.                                                  *)

Store ==
    [bookings |-> bookings_by_room_date, next_id |-> next_id,
     history |-> search_history, last |-> last_search_comparisons,
     method |-> search_method]

_log_run(history, operation, n, linear_comparisons, binary_comparisons) ==
    Append(history, [operation |-> operation, n |-> n,
                     linear_comparisons |-> linear_comparisons,
                     binary_comparisons |-> binary_comparisons])

\* the dict after _get_list_for(room, booking_date)
_get_list_for(bookings, room, booking_date) ==
    LET key == <<room, booking_date>>
    IN IF key \in DOMAIN bookings THEN bookings ELSE bookings @@ (key :> <<>>)

\* every stored booking
stored(bookings) ==
    {bookings[k][i] : <<k, i>> \in
        UNION {{k} \X (1..Len(bookings[k])) : k \in DOMAIN bookings}}

\* _conflicts_for_list: the resolution search_method selects.  No method
\* of the class calls it.
_conflicts_for_list(st, blist, candidate) ==
    IF st.method = "linear"
    THEN _linear_conflicts(blist, candidate)
    ELSE _binary_conflicts(blist, candidate)

\* add_booking that does not advance next_id
add_booking_keeps_next_id(st, name, room, booking_date, start_hour, end_hour) ==
    LET candidate == Booking(st.next_id, name, room, booking_date,
                             start_hour, end_hour)
        key == <<room, booking_date>>
        bookings == _get_list_for(st.bookings, room, booking_date)
        blist == bookings[key]
        bin == _binary_conflicts(blist, candidate)
        history == _log_run(st.history, "add_booking", Len(blist),
                            Len(blist), bin.comps)
    IN IF bin.conflicts # <<>>
       THEN [st |-> [bookings |-> bookings, next_id |-> st.next_id,
                     history |-> history, last |-> bin.comps,
                     method |-> st.method],
             ok |-> FALSE, conflicts |-> bin.conflicts]
       ELSE [st |-> [bookings |-> [bookings EXCEPT ![key] =
                                      list_insert(blist, bin.idx, candidate)],
                     next_id |-> st.next_id,
                     history |-> history, last |-> bin.comps,
                     method |-> st.method],
             ok |-> TRUE, conflicts |-> <<>>]

\* add_booking that logs no run when it rejects the candidate
add_booking_silent_reject(st, name, room, booking_date, start_hour, end_hour) ==
    LET candidate == Booking(st.next_id, name, room, booking_date,
                             start_hour, end_hour)
        key == <<room, booking_date>>
        bookings == _get_list_for(st.bookings, room, booking_date)
        blist == bookings[key]
        bin == _binary_conflicts(blist, candidate)
        lin == _linear_conflicts(blist, candidate)
    IN IF bin.conflicts # <<>>
       THEN [st |-> [st EXCEPT !.bookings = bookings, !.last = bin.comps],
             ok |-> FALSE, conflicts |-> bin.conflicts]
       ELSE [st |-> [st EXCEPT !.bookings =
                                   [bookings EXCEPT ![key] =
                                       list_insert(blist, bin.idx, candidate)],
                               !.next_id = st.next_id + 1,
                               !.history = _log_run(st.history, "add_booking",
                                                    Len(blist), lin.comps,
                                                    bin.comps),
                               !.last = bin.comps],
             ok |-> TRUE, conflicts |-> <<>>]

\* add_booking that logs its run after the insertion, with the size the
\* bucket has then
add_booking_logs_after_insert(st, name, room, booking_date, start_hour, end_hour) ==
    LET candidate == Booking(st.next_id, name, room, booking_date,
                             start_hour, end_hour)
        key == <<room, booking_date>>
        bookings == _get_list_for(st.bookings, room, booking_date)
        blist == bookings[key]
        bin == _binary_conflicts(blist, candidate)
        lin == _linear_conflicts(blist, candidate)
    IN IF bin.conflicts # <<>>
       THEN [st |-> [st EXCEPT !.bookings = bookings,
                               !.history = _log_run(st.history, "add_booking",
                                                    Len(blist), lin.comps,
                                                    bin.comps),
                               !.last = bin.comps],
             ok |-> FALSE, conflicts |-> bin.conflicts]
       ELSE [st |-> [st EXCEPT !.bookings =
                                   [bookings EXCEPT ![key] =
                                       list_insert(blist, bin.idx, candidate)],
                               !.next_id = st.next_id + 1,
                               !.history = _log_run(st.history, "add_booking",
                                                    Len(blist) + 1, lin.comps,
                                                    bin.comps),
                               !.last = bin.comps],
             ok |-> TRUE, conflicts |-> <<>>]

\* add_booking that also rejects a candidate whose hours overlap a booking of
\* another room on the same date
add_booking_checks_date(st, name, room, booking_date, start_hour, end_hour) ==
    LET candidate == Booking(st.next_id, name, room, booking_date,
                             start_hour, end_hour)
        key == <<room, booking_date>>
        bookings == _get_list_for(st.bookings, room, booking_date)
        blist == bookings[key]
        bin == _binary_conflicts(blist, candidate)
        lin == _linear_conflicts(blist, candidate)
        clash == \E b \in stored(st.bookings) :
                     /\ b.booking_date = booking_date
                     /\ b.start_hour < end_hour
                     /\ start_hour < b.end_hour
        history == _log_run(st.history, "add_booking", Len(blist),
                            lin.comps, bin.comps)
    IN IF bin.conflicts # <<>> \/ clash
       THEN [st |-> [st EXCEPT !.bookings = bookings, !.history = history,
                               !.last = bin.comps],
             ok |-> FALSE, conflicts |-> bin.conflicts]
       ELSE [st |-> [st EXCEPT !.bookings =
                                   [bookings EXCEPT ![key] =
                                       list_insert(blist, bin.idx, candidate)],
                               !.next_id = st.next_id + 1,
                               !.history = history, !.last = bin.comps],
             ok |-> TRUE, conflicts |-> <<>>]

\* add_booking that decides by the resolution search_method selects
add_booking_by_selector(st, name, room, booking_date, start_hour, end_hour) ==
    LET candidate == Booking(st.next_id, name, room, booking_date,
                             start_hour, end_hour)
        key == <<room, booking_date>>
        bookings == _get_list_for(st.bookings, room, booking_date)
        blist == bookings[key]
        bin == _binary_conflicts(blist, candidate)
        lin == _linear_conflicts(blist, candidate)
        chosen == _conflicts_for_list(st, blist, candidate)
        history == _log_run(st.history, "add_booking", Len(blist),
                            lin.comps, bin.comps)
    IN IF chosen.conflicts # <<>>
       THEN [st |-> [st EXCEPT !.bookings = bookings, !.history = history,
                               !.last = chosen.comps],
             ok |-> FALSE, conflicts |-> chosen.conflicts]
       ELSE [st |-> [st EXCEPT !.bookings =
                                   [bookings EXCEPT ![key] =
                                       list_insert(blist, chosen.idx,
                                                   candidate)],
                               !.next_id = st.next_id + 1,
                               !.history = history, !.last = chosen.comps],
             ok |-> TRUE, conflicts |-> <<>>]

add_booking(st, name, room, booking_date, start_hour, end_hour) ==
    LET candidate == Booking(st.next_id, name, room, booking_date,
                             start_hour, end_hour)
        key == <<room, booking_date>>
        bookings == _get_list_for(st.bookings, room, booking_date)
        blist == bookings[key]
        bin == _binary_conflicts(blist, candidate)
        lin == _linear_conflicts(blist, candidate)
        history == _log_run(st.history, "add_booking", Len(blist),
                            lin.comps, bin.comps)
    IN IF bin.conflicts # <<>>
       THEN [st |-> [bookings |-> bookings, next_id |-> st.next_id,
                     history |-> history, last |-> bin.comps,
                     method |-> st.method],
             ok |-> FALSE, conflicts |-> bin.conflicts]
       ELSE [st |-> [bookings |-> [bookings EXCEPT ![key] =
                                      list_insert(blist, bin.idx, candidate)],
                     next_id |-> st.next_id + 1,
                     history |-> history, last |-> bin.comps,
                     method |-> st.method],
             ok |-> TRUE, conflicts |-> <<>>]

\* find_conflicts_for_slot that logs no run
find_conflicts_for_slot_unlogged(st, room, booking_date, start_hour, end_hour) ==
    LET dummy == Booking(-1, "(check)", room, booking_date,
                         start_hour, end_hour)
        bookings == _get_list_for(st.bookings, room, booking_date)
        bin == _binary_conflicts(bookings[<<room, booking_date>>], dummy)
    IN [st |-> [st EXCEPT !.bookings = bookings, !.last = bin.comps],
        ok |-> TRUE, conflicts |-> bin.conflicts]

find_conflicts_for_slot(st, room, booking_date, start_hour, end_hour) ==
    LET dummy == Booking(-1, "(check)", room, booking_date,
                         start_hour, end_hour)
        bookings == _get_list_for(st.bookings, room, booking_date)
        blist == bookings[<<room, booking_date>>]
        bin == _binary_conflicts(blist, dummy)
        lin == _linear_conflicts(blist, dummy)
    IN [st |-> [bookings |-> bookings, next_id |-> st.next_id,
                history |-> _log_run(st.history, "check_availability",
                                     Len(blist), lin.comps, bin.comps),
                last |-> bin.comps, method |-> st.method],
        ok |-> TRUE, conflicts |-> bin.conflicts]

\* find_booking: <<b>> for the booking found, <<>> for None
find_booking(bookings, booking_id) ==
    IF \E b \in stored(bookings) : b.booking_id = booking_id
    THEN <<CHOOSE b \in stored(bookings) : b.booking_id = booking_id>>
    ELSE <<>>

\* delete_booking that reports success and leaves the booking in its bucket
delete_booking_keeps_booking(st, booking_id) ==
    IF \E b \in stored(st.bookings) : b.booking_id = booking_id
    THEN [st |-> st, ok |-> TRUE, conflicts |-> <<>>]
    ELSE [st |-> st, ok |-> FALSE, conflicts |-> <<>>]

\* delete_booking that hands the freed id out again: next_id falls back to
\* the id of the booking deleted
delete_booking_reuses_id(st, booking_id) ==
    IF \E b \in stored(st.bookings) : b.booking_id = booking_id
    THEN LET b == CHOOSE b \in stored(st.bookings) :
                      b.booking_id = booking_id
             key == <<b.room, b.booking_date>>
         IN [st |-> [st EXCEPT !.bookings[key] = list_remove(@, b),
                               !.next_id = booking_id],
             ok |-> TRUE, conflicts |-> <<>>]
    ELSE [st |-> st, ok |-> FALSE, conflicts |-> <<>>]

\* delete_booking that removes the last booking of the bucket that holds the
\* id, whichever booking carries it
delete_booking_pops_last(st, booking_id) ==
    IF \E b \in stored(st.bookings) : b.booking_id = booking_id
    THEN LET b == CHOOSE b \in stored(st.bookings) :
                      b.booking_id = booking_id
             key == <<b.room, b.booking_date>>
         IN [st |-> [st EXCEPT !.bookings[key] = SubSeq(@, 1, Len(@) - 1)],
             ok |-> TRUE, conflicts |-> <<>>]
    ELSE [st |-> st, ok |-> FALSE, conflicts |-> <<>>]

delete_booking(st, booking_id) ==
    IF \E k \in DOMAIN st.bookings : \E i \in 1..Len(st.bookings[k]) :
           st.bookings[k][i].booking_id = booking_id
    THEN LET key == CHOOSE k \in DOMAIN st.bookings :
                        \E i \in 1..Len(st.bookings[k]) :
                            st.bookings[k][i].booking_id = booking_id
             blist == st.bookings[key]
             i == CHOOSE i \in 1..Len(blist) :
                      /\ blist[i].booking_id = booking_id
                      /\ \A j \in 1..(i - 1) :
                             blist[j].booking_id # booking_id
         IN [st |-> [st EXCEPT !.bookings[key] = list_remove(blist, blist[i])],
             ok |-> TRUE, conflicts |-> <<>>]
    ELSE [st |-> st, ok |-> FALSE, conflicts |-> <<>>]

\* update_booking that checks the new slot while the old booking is still in
\* its bucket, and removes the old booking once the new one is stored
update_booking_checks_first(st, booking_id, new_name, new_room, new_date, new_start, new_end) ==
    LET found == find_booking(st.bookings, booking_id)
    IN IF found = <<>>
       THEN [st |-> st, ok |-> FALSE, conflicts |-> <<>>]
       ELSE LET old == found[1]
                key == <<old.room, old.booking_date>>
                r == add_booking(st, new_name, new_room, new_date,
                                 new_start, new_end)
            IN IF r.ok
               THEN [r EXCEPT !.st.bookings[key] = list_remove(@, old)]
               ELSE r

\* update_booking that uses up an id also when it fails
update_booking_burns_id(st, booking_id, new_name, new_room, new_date, new_start, new_end) ==
    LET found == find_booking(st.bookings, booking_id)
    IN IF found = <<>>
       THEN [st |-> st, ok |-> FALSE, conflicts |-> <<>>]
       ELSE LET old == found[1]
                key == <<old.room, old.booking_date>>
                removed == [st EXCEPT !.bookings[key] = list_remove(@, old)]
                r == add_booking(removed, new_name, new_room, new_date,
                                 new_start, new_end)
            IN IF r.ok
               THEN r
               ELSE [r EXCEPT !.st.next_id = st.next_id + 1,
                              !.st.bookings[key] =
                                  sort_by_start(Append(@, old))]

\* update_booking without the restore of the old booking on failure
update_booking_no_restore(st, booking_id, new_name, new_room, new_date, new_start, new_end) ==
    LET found == find_booking(st.bookings, booking_id)
    IN IF found = <<>>
       THEN [st |-> st, ok |-> FALSE, conflicts |-> <<>>]
       ELSE LET old == found[1]
                key == <<old.room, old.booking_date>>
                removed == [st EXCEPT !.bookings[key] = list_remove(@, old)]
            IN add_booking(removed, new_name, new_room, new_date,
                           new_start, new_end)

\* update_booking that edits in place: the new booking keeps the old id and
\* next_id stays
update_booking_keeps_id(st, booking_id, new_name, new_room, new_date, new_start, new_end) ==
    LET found == find_booking(st.bookings, booking_id)
    IN IF found = <<>>
       THEN [st |-> st, ok |-> FALSE, conflicts |-> <<>>]
       ELSE LET old == found[1]
                key == <<old.room, old.booking_date>>
                removed == [st EXCEPT !.bookings[key] = list_remove(@, old),
                                      !.next_id = booking_id]
                r == add_booking(removed, new_name, new_room, new_date,
                                 new_start, new_end)
            IN IF r.ok
               THEN [r EXCEPT !.st.next_id = st.next_id]
               ELSE [r EXCEPT !.st.next_id = st.next_id,
                              !.st.bookings[key] =
                                  sort_by_start(Append(@, old))]

\* update_booking that stores the new booking also when no booking carries
\* the id
update_booking_adds_when_missing(st, booking_id, new_name, new_room, new_date, new_start, new_end) ==
    LET found == find_booking(st.bookings, booking_id)
    IN IF found = <<>>
       THEN add_booking(st, new_name, new_room, new_date, new_start, new_end)
       ELSE LET old == found[1]
                key == <<old.room, old.booking_date>>
                removed == [st EXCEPT !.bookings[key] = list_remove(@, old)]
                r == add_booking(removed, new_name, new_room, new_date,
                                 new_start, new_end)
            IN IF r.ok
               THEN r
               ELSE [r EXCEPT !.st.bookings[key] =
                                  sort_by_start(Append(@, old))]

update_booking(st, booking_id, new_name, new_room, new_date, new_start, new_end) ==
    LET found == find_booking(st.bookings, booking_id)
    IN IF found = <<>>
       THEN [st |-> st, ok |-> FALSE, conflicts |-> <<>>]
       ELSE LET old == found[1]
                key == <<old.room, old.booking_date>>
                removed == [st EXCEPT !.bookings[key] = list_remove(@, old)]
                r == add_booking(removed, new_name, new_room, new_date,
                                 new_start, new_end)
            IN IF r.ok
               THEN r
               ELSE [r EXCEPT !.st.bookings[key] =
                                  sort_by_start(Append(@, old))]

---------------------------------------------------------------------------
(* Queries of BookingScheduler (scheduler.py): a query returns [st, value], *)
(* the store after the call and the value it returns.                      *)

\* max that keeps its first argument
py_max_first(a, b) == a

py_max(a, b) == IF a >= b THEN a ELSE b
py_min(a, b) == IF a <= b THEN a ELSE b

\* l[:n]
slice_to(l, n) ==
    IF n >= 0
    THEN SubSeq(l, 1, py_min(n, Len(l)))
    ELSE SubSeq(l, 1, py_max(0, Len(l) + n))

\* d.get(key, default)
dict_get(bookings, key, default) ==
    IF key \in DOMAIN bookings THEN bookings[key] ELSE default

\* tuples of integers compare as Python compares tuples, item by item
RECURSIVE tuple_le(_, _)
tuple_le(a, b) ==
    IF a = <<>> THEN TRUE
    ELSE IF b = <<>> THEN FALSE
    ELSE IF a[1] # b[1] THEN a[1] < b[1]
    ELSE tuple_le(Tail(a), Tail(b))

\* room names compare as strings: the five configured names stand in
\* alphabetical order, and "Room Z" after them; a room's rank is its place
room_rank(room) ==
    IF \E i \in 1..Len(AllRooms) : AllRooms[i] = room
    THEN CHOOSE i \in 1..Len(AllRooms) : AllRooms[i] = room
    ELSE Len(AllRooms) + 1

\* the key lambda b: (b.room, b.start_hour)
key_room_start(b) == <<room_rank(b.room), b.start_hour>>

\* the key lambda b: (b.room, b.booking_date, b.start_hour), room first
key_room_date_start(b) ==
    <<room_rank(b.room)>> \o b.booking_date \o <<b.start_hour>>

\* the key lambda b: (b.booking_date, b.room, b.start_hour)
key_date_room_start(b) ==
    b.booking_date \o <<room_rank(b.room), b.start_hour>>

\* out.sort(key=...) on a list of <<key, booking>> pairs: a stable sort
RECURSIVE sort_pairs(_)
sort_pairs(l) ==
    IF l = <<>>
    THEN <<>>
    ELSE LET front == sort_pairs(SubSeq(l, 1, Len(l) - 1))
             x == l[Len(l)]
             p == Cardinality({i \in 1..Len(front) :
                                   tuple_le(front[i][1], x[1])})
         IN list_insert(front, p, x)

\* out.extend(blist) over the buckets of the keys in keys, in the order the
\* dict yields them (any order: CHOOSE fixes one)
RECURSIVE extend_all(_, _)
extend_all(bookings, keys) ==
    IF keys = {}
    THEN <<>>
    ELSE LET k == CHOOSE k \in keys : TRUE
         IN bookings[k] \o extend_all(bookings, keys \ {k})

get_bookings_for_day(st, booking_date) ==
    LET out == extend_all(st.bookings,
                          {k \in DOMAIN st.bookings : k[2] = booking_date})
        sorted == sort_pairs([i \in 1..Len(out) |->
                                  <<key_room_start(out[i]), out[i]>>])
    IN [st |-> st, value |-> [i \in 1..Len(sorted) |-> sorted[i][2]]]

\* get_bookings_for_room_on_day that fetches the list through _get_list_for
get_bookings_for_room_on_day_creates(st, room, booking_date) ==
    LET bookings == _get_list_for(st.bookings, room, booking_date)
    IN [st |-> [st EXCEPT !.bookings = bookings],
        value |-> bookings[<<room, booking_date>>]]

get_bookings_for_room_on_day(st, room, booking_date) ==
    [st |-> st, value |-> dict_get(st.bookings, <<room, booking_date>>, <<>>)]

bookings_by_room_on_day(st, room, booking_date) ==
    [st |-> st, value |-> dict_get(st.bookings, <<room, booking_date>>, <<>>)]

all_bookings(st) ==
    LET out == extend_all(st.bookings, DOMAIN st.bookings)
        sorted == sort_pairs([i \in 1..Len(out) |->
                                  <<key_date_room_start(out[i]), out[i]>>])
    IN [st |-> st, value |-> [i \in 1..Len(sorted) |-> sorted[i][2]]]

\* sum(b.end_hour - b.start_hour for b in blist)
RECURSIVE sum_hours(_)
sum_hours(blist) ==
    IF blist = <<>>
    THEN 0
    ELSE (blist[1].end_hour - blist[1].start_hour) + sum_hours(Tail(blist))

\* the percentage cut off at the decimal point, int() without round()
round_percent_truncates(hours, length) ==
    IF hours >= 0
    THEN (hours * 100) \div length
    ELSE -(((-hours) * 100) \div length)

\* int(round((hours / length) * 100)) for length > 0.  round() takes the
\* nearest integer and, of two equally near, the even one.  The program
\* divides and multiplies in double precision; for the lengths 12, 336, 348,
\* 360 and 372 and every integer hours with |hours| < 207 the double result
\* is the exact one computed here.
round_percent(hours, length) ==
    LET q == (hours * 100) \div length
        rem == hours * 100 - q * length
    IN IF 2 * rem > length THEN q + 1
       ELSE IF 2 * rem < length THEN q
       ELSE IF q % 2 = 0 THEN q ELSE q + 1

\* utilisation_for_day without the clamp to [0, 100]
utilisation_for_day_unclamped(st, booking_date, room) ==
    LET blist == bookings_by_room_on_day(st, room, booking_date).value
    IN [st |-> st,
        value |-> round_percent(sum_hours(blist),
                                DAY_END_HOUR - DAY_START_HOUR)]

utilisation_for_day(st, booking_date, room) ==
    LET blist == bookings_by_room_on_day(st, room, booking_date).value
        total_hours == sum_hours(blist)
        day_length == DAY_END_HOUR - DAY_START_HOUR
    IN IF day_length <= 0
       THEN [st |-> st, value |-> 0]
       ELSE [st |-> st,
             value |-> py_max(0, py_min(100,
                           round_percent(total_hours, day_length)))]

\* calendar.monthrange(year, month)[1]
days_in_month(year, month) ==
    IF month = 2
    THEN IF (year % 4 = 0 /\ year % 100 # 0) \/ year % 400 = 0
         THEN 29 ELSE 28
    ELSE IF month \in {4, 6, 9, 11} THEN 30 ELSE 31

\* the booked hours of a room over the buckets of the keys in keys
RECURSIVE booked_hours_of(_, _)
booked_hours_of(bookings, keys) ==
    IF keys = {}
    THEN 0
    ELSE LET k == CHOOSE k \in keys : TRUE
         IN sum_hours(bookings[k]) + booked_hours_of(bookings, keys \ {k})

\* utilisation_for_month that counts the room's bookings of every month
utilisation_for_month_any_month(st, year, month, room) ==
    LET capacity == days_in_month(year, month)
                        * (DAY_END_HOUR - DAY_START_HOUR)
        booked_hours ==
            booked_hours_of(st.bookings,
                            {k \in DOMAIN st.bookings : k[1] = room})
    IN [st |-> st,
        value |-> py_max(0, py_min(100,
                      round_percent(booked_hours, capacity)))]

utilisation_for_month(st, year, month, room) ==
    LET num_days == days_in_month(year, month)
        day_length == DAY_END_HOUR - DAY_START_HOUR
        capacity == num_days * day_length
        booked_hours ==
            booked_hours_of(st.bookings,
                            {k \in DOMAIN st.bookings :
                                 /\ k[1] = room
                                 /\ k[2][1] = year
                                 /\ k[2][2] = month})
    IN IF capacity <= 0
       THEN [st |-> st, value |-> 0]
       ELSE [st |-> st,
             value |-> py_max(0, py_min(100,
                           round_percent(booked_hours, capacity)))]

\* get_available_rooms over the rooms of room_list, from index i on
RECURSIVE available_from(_, _, _, _, _, _, _)
available_from(st, room_list, i, available, booking_date, start_hour, end_hour) ==
    IF i > Len(room_list)
    THEN [st |-> st, value |-> available]
    ELSE LET r == find_conflicts_for_slot(st, room_list[i], booking_date,
                                          start_hour, end_hour)
         IN available_from(r.st, room_list, i + 1,
                           IF r.conflicts = <<>>
                           THEN Append(available, room_list[i])
                           ELSE available,
                           booking_date, start_hour, end_hour)

\* get_available_rooms that keeps the rooms with conflicts ("if" in the place
\* of "if not")
get_available_rooms_busy(st, booking_date, start_hour, end_hour) ==
    LET all == available_from(st, rooms, 1, <<>>, booking_date, start_hour,
                              end_hour)
    IN [st |-> all.st,
        value |-> SelectSeq(rooms, LAMBDA room :
                      \A i \in 1..Len(all.value) : all.value[i] # room)]

get_available_rooms(st, booking_date, start_hour, end_hour) ==
    available_from(st, rooms, 1, <<>>, booking_date, start_hour, end_hour)

\* the loop of suggest_next_slots over blist from position i on
RECURSIVE gap_walk(_, _, _, _, _, _, _)
gap_walk(blist, i, current, suggestions, start_hour, duration, max_suggestions) ==
    IF i > Len(blist)
    THEN slice_to(IF DAY_END_HOUR - current >= duration
                         /\ current >= start_hour
                  THEN Append(suggestions, <<current, current + duration>>)
                  ELSE suggestions,
                  max_suggestions)
    ELSE LET b == blist[i]
             fits == b.start_hour - current >= duration
                         /\ current >= start_hour
             found == IF fits
                      THEN Append(suggestions, <<current, current + duration>>)
                      ELSE suggestions
         IN IF fits /\ Len(found) >= max_suggestions
            THEN found
            ELSE gap_walk(blist, i + 1, py_max(current, b.end_hour), found,
                          start_hour, duration, max_suggestions)

\* suggest_next_slots that offers every gap long enough, also those that
\* begin before the requested start
suggest_next_slots_any_gap(st, room, booking_date, start_hour, end_hour, max_suggestions) ==
    LET duration == end_hour - start_hour
    IN IF duration <= 0
       THEN [st |-> st, value |-> <<>>]
       ELSE LET blist == get_bookings_for_room_on_day(st, room,
                                                      booking_date).value
            IN [st |-> st,
                value |-> gap_walk(blist, 1, DAY_START_HOUR, <<>>,
                                   DAY_START_HOUR, duration, max_suggestions)]

suggest_next_slots(st, room, booking_date, start_hour, end_hour, max_suggestions) ==
    LET duration == end_hour - start_hour
    IN IF duration <= 0
       THEN [st |-> st, value |-> <<>>]
       ELSE LET blist == get_bookings_for_room_on_day(st, room,
                                                      booking_date).value
            IN [st |-> st,
                value |-> gap_walk(blist, 1, DAY_START_HOUR, <<>>, start_hour,
                                   duration, max_suggestions)]

---------------------------------------------------------------------------
(* The store as a state machine: one action per public call                *)

Init ==
    /\ bookings_by_room_date = <<>>
    /\ next_id = 1
    /\ search_method = "binary"
    /\ search_history = <<>>
    /\ last_search_comparisons = 0
    /\ ret = [op |-> "__init__", ok |-> TRUE, conflicts |-> <<>>]

\* the fields after a call of op, and the value it returned
Return(op, r) ==
    /\ bookings_by_room_date' = r.st.bookings
    /\ next_id' = r.st.next_id
    /\ search_history' = r.st.history
    /\ last_search_comparisons' = r.st.last
    /\ ret' = [op |-> op, ok |-> r.ok, conflicts |-> r.conflicts]
    /\ UNCHANGED search_method

AddBooking(roomset, slots) ==
    /\ Len(search_history) < MaxRuns
    /\ \E name \in Names, room \in roomset, d \in Dates, s \in slots :
           Return("add_booking",
                  add_booking(Store, name, room, d, s[1], s[2]))

UpdateBooking(roomset, slots) ==
    /\ Len(search_history) < MaxRuns
    /\ \E id \in Ids, name \in Names, room \in roomset, d \in Dates,
          s \in slots :
           Return("update_booking",
                  update_booking(Store, id, name, room, d, s[1], s[2]))

DeleteBooking ==
    /\ \E id \in Ids :
           Return("delete_booking", delete_booking(Store, id))

FindConflictsForSlot(roomset, slots) ==
    /\ Len(search_history) < MaxRuns
    /\ \E room \in roomset, d \in Dates, s \in slots :
           Return("find_conflicts_for_slot",
                  find_conflicts_for_slot(Store, room, d, s[1], s[2]))

\* the radio buttons of the main window (gui/window.py) set search_method;
\* no method of the store assigns it
SetSearchMethod ==
    /\ \E m \in {"linear", "binary"} : search_method' = m
    /\ UNCHANGED <<bookings_by_room_date, next_id, search_history,
                   last_search_comparisons, ret>>

\* add_booking on a date of dates
AddBookingOn(roomset, dates, slots) ==
    /\ Len(search_history) < MaxRuns
    /\ \E name \in Names, room \in roomset, d \in dates, s \in slots :
           Return("add_booking",
                  add_booking(Store, name, room, d, s[1], s[2]))

\* the fields after a query of op, and the value it returned
Answer(op, r) ==
    /\ bookings_by_room_date' = r.st.bookings
    /\ next_id' = r.st.next_id
    /\ search_history' = r.st.history
    /\ last_search_comparisons' = r.st.last
    /\ ret' = [op |-> op, ok |-> TRUE, conflicts |-> <<>>, value |-> r.value]
    /\ UNCHANGED search_method

GetAvailableRooms(dates, slots) ==
    /\ Len(search_history) + Len(rooms) <= MaxRuns
    /\ \E d \in dates, s \in slots :
           Answer("get_available_rooms",
                  get_available_rooms(Store, d, s[1], s[2]))

GetBookingsForRoomOnDay(roomset, dates) ==
    /\ \E room \in roomset, d \in dates :
           Answer("get_bookings_for_room_on_day",
                  get_bookings_for_room_on_day(Store, room, d))

GetBookingsForDay(dates) ==
    /\ \E d \in dates :
           Answer("get_bookings_for_day", get_bookings_for_day(Store, d))

AllBookings ==
    /\ Answer("all_bookings", all_bookings(Store))

FindBooking ==
    /\ \E id \in Ids :
           Answer("find_booking",
                  [st |-> Store,
                   value |-> find_booking(bookings_by_room_date, id)])

SuggestNextSlots(roomset, dates, slots) ==
    /\ \E room \in roomset, d \in dates, s \in slots,
          max_suggestions \in MaxSuggestions :
           Answer("suggest_next_slots",
                  suggest_next_slots(Store, room, d, s[1], s[2],
                                     max_suggestions))

UtilisationForDay(roomset, dates) ==
    /\ \E room \in roomset, d \in dates :
           Answer("utilisation_for_day", utilisation_for_day(Store, d, room))

UtilisationForMonth(roomset, months) ==
    /\ \E room \in roomset, m \in months :
           Answer("utilisation_for_month",
                  utilisation_for_month(Store, m[1], m[2], room))

\* update_booking to a date of dates
UpdateBookingOn(roomset, dates, slots) ==
    /\ Len(search_history) < MaxRuns
    /\ \E id \in Ids, name \in Names, room \in roomset, d \in dates,
          s \in slots :
           Return("update_booking",
                  update_booking(Store, id, name, room, d, s[1], s[2]))

\* the searches of search_algorithms.py, called on their own; the value
\* recorded is <<sequence, item, result>>
BinarySearch ==
    /\ \E sequence \in SortedSequences, item \in SearchItems :
           Answer("binary_search",
                  [st |-> Store,
                   value |-> <<sequence, item, binary_search(sequence, item)>>])

\* binary_search on a sequence in any order
BinarySearchUnsorted ==
    /\ \E sequence \in AnySequences, item \in SearchItems :
           Answer("binary_search",
                  [st |-> Store,
                   value |-> <<sequence, item, binary_search(sequence, item)>>])

LinearSearch ==
    /\ \E sequence \in AnySequences, item \in 0..3 :
           Answer("linear_search",
                  [st |-> Store,
                   value |-> <<sequence, item, linear_search(sequence, item)>>])

\* Booking.overlaps called on two bookings of any rooms, dates and hours;
\* the value recorded is the two bookings with the result
Overlaps ==
    /\ \E r1 \in Rooms, r2 \in Rooms, d1 \in ListDates, d2 \in ListDates,
          s1 \in SelectorSlots, s2 \in SelectorSlots :
           LET self == Booking(1, "Team Sync", r1, d1, s1[1], s1[2])
               other == Booking(2, "Team Sync", r2, d2, s2[1], s2[2])
           IN Answer("overlaps",
                     [st |-> Store,
                      value |-> <<self, other, overlaps(self, other)>>])

\* the benchmarks of utils/benchmark.py; the value recorded is the
\* arguments with the result
BenchmarkSearches ==
    /\ \E n \in BenchSizes :
           Answer("benchmark_searches",
                  [st |-> Store, value |-> <<n, benchmark_searches(n)>>])

CompareSearchAlgorithms ==
    /\ \E sizes \in SizeLists, target \in BenchTargets :
           Answer("compare_search_algorithms",
                  [st |-> Store,
                   value |-> <<sizes, target,
                               compare_search_algorithms(sizes, target)>>])

\* The store behind the dialogs of gui/window.py, which pass on configured
\* rooms and start < end
Next ==
    \/ AddBooking(Rooms, ValidSlots)
    \/ UpdateBooking(Rooms, ValidSlots)
    \/ DeleteBooking
    \/ FindConflictsForSlot(Rooms, ValidSlots)

Spec == Init /\ [][Next]_vars

\* The class on its own, which takes any pair of hours: the calls on one
\* room with start >= end let in
NextAny ==
    \/ AddBooking({rooms[1]}, AnySlots)
    \/ UpdateBooking({rooms[1]}, AnySlots)
    \/ DeleteBooking
    \/ FindConflictsForSlot({rooms[1]}, AnySlots)

SpecAny == Init /\ [][NextAny]_vars

\* The store with its queries: bookings with start < end in the first room,
\* checks and queries on every configured room and on a date without
\* bookings
NextQueries ==
    \/ AddBooking({rooms[1]}, ValidSlots)
    \/ DeleteBooking
    \/ FindConflictsForSlot(Rooms, ValidSlots)
    \/ GetAvailableRooms(Dates, ValidSlots)
    \/ GetBookingsForRoomOnDay(Rooms, QueryDates)
    \/ GetBookingsForDay(QueryDates)
    \/ AllBookings
    \/ FindBooking
    \/ SuggestNextSlots({rooms[1]}, QueryDates,
                        {<<DAY_START_HOUR, DAY_START_HOUR + 1>>})
    \/ UtilisationForDay(Rooms, QueryDates)
    \/ UtilisationForMonth(Rooms, {<<d[1], d[2]>> : d \in QueryDates})

SpecQueries == Init /\ [][NextQueries]_vars

\* The store and the requests for suggestions: bookings with start < end in
\* the first room, requests of every length on its date and on the day
\* after
NextSuggest ==
    \/ AddBooking({rooms[1]}, ValidSlots)
    \/ DeleteBooking
    \/ SuggestNextSlots({rooms[1]}, QueryDates, RequestSlots)

SpecSuggest == Init /\ [][NextSuggest]_vars

\* The store and its utilisation: bookings of any hours in the first room
\* on days of two months, utilisation asked for every configured room
NextUtil ==
    \/ AddBookingOn({rooms[1]}, UtilDates, UtilSlots)
    \/ UtilisationForDay(Rooms, UtilDates)
    \/ UtilisationForMonth(Rooms, UtilMonths)

SpecUtil == Init /\ [][NextUtil]_vars

\* The store and its availability queries: bookings with start < end in
\* every configured room
NextAvail ==
    \/ AddBooking(Rooms, ValidSlots)
    \/ DeleteBooking
    \/ FindConflictsForSlot(Rooms, ValidSlots)
    \/ GetAvailableRooms(Dates, ValidSlots)

SpecAvail == Init /\ [][NextAvail]_vars

\* The class on its own while the radio buttons switch search_method
\* between the calls
NextSelector ==
    \/ AddBooking({rooms[1]}, SelectorSlots)
    \/ UpdateBooking({rooms[1]}, SelectorSlots)
    \/ DeleteBooking
    \/ FindConflictsForSlot({rooms[1]}, SelectorSlots)
    \/ SetSearchMethod

SpecSelector == Init /\ [][NextSelector]_vars

\* Every call that logs a run, and delete_booking, which logs none
NextLog ==
    \/ AddBooking(Rooms, LogSlots)
    \/ UpdateBooking(Rooms, LogSlots)
    \/ DeleteBooking
    \/ FindConflictsForSlot(Rooms, LogSlots)
    \/ GetAvailableRooms(Dates, LogSlots)

SpecLog == Init /\ [][NextLog]_vars

\* Bookings on two dates in every room, and the two lists of them
NextLists ==
    \/ AddBookingOn(Rooms, ListDates, ListSlots)
    \/ DeleteBooking
    \/ AllBookings
    \/ GetBookingsForDay(ListDates)

SpecLists == Init /\ [][NextLists]_vars

\* binary_search on every sequence of up to MaxLen items, sorted or not
NextSearchAny ==
    \/ BinarySearch
    \/ BinarySearchUnsorted

SpecSearchAny == Init /\ [][NextSearchAny]_vars

\* Booking.overlaps on its own
NextOverlaps ==
    \/ Overlaps

SpecOverlaps == Init /\ [][NextOverlaps]_vars

\* The two benchmarks
NextBench ==
    \/ BenchmarkSearches
    \/ CompareSearchAlgorithms

SpecBench == Init /\ [][NextBench]_vars

\* Bookings made, moved and deleted on two dates in every room
NextLocal ==
    \/ AddBookingOn(Rooms, ListDates, ListSlots)
    \/ UpdateBookingOn(Rooms, ListDates, ListSlots)
    \/ DeleteBooking

SpecLocal == Init /\ [][NextLocal]_vars

\* The two searches on sequences of up to MaxLen items
NextSearch ==
    \/ BinarySearch
    \/ LinearSearch

SpecSearch == Init /\ [][NextSearch]_vars

---------------------------------------------------------------------------
(* What the claims speak of                                                *)

Range(l) == {l[i] : i \in 1..Len(l)}

\* the bucket of (room, date), empty when the dict holds no such key
Bucket(bookings, room, d) ==
    IF <<room, d>> \in DOMAIN bookings THEN bookings[<<room, d>>] ELSE <<>>

\* half-open hour ranges [s1, e1) and [s2, e2) overlap
Intersect(s1, e1, s2, e2) == s1 < e2 /\ s2 < e1

\* the bookings of a list whose hours overlap [s, e)
Overlapping(blist, s, e) ==
    {b \in Range(blist) : Intersect(b.start_hour, b.end_hour, s, e)}

\* l with the element at position p left out
Without(l, p) == SubSeq(l, 1, p - 1) \o SubSeq(l, p + 1, Len(l))

AscendingByStart(l) ==
    \A i, j \in 1..Len(l) : i < j => l[i].start_hour <= l[j].start_hour

\* the state is one in which the model makes the calls that log a run
CanLog == Len(search_history) < MaxRuns

\* every booking lies in the bucket of its own room and date, which is what
\* update_booking relies on to find the list that holds the old booking
BucketsKeyed ==
    \A k \in DOMAIN bookings_by_room_date :
        \A b \in Range(bookings_by_room_date[k]) :
            k = <<b.room, b.booking_date>>

\* no two stored bookings carry the same id, so find_booking and
\* delete_booking have at most one booking to find
IdsDistinct ==
    \A k1, k2 \in DOMAIN bookings_by_room_date :
        \A i \in 1..Len(bookings_by_room_date[k1]) :
            \A j \in 1..Len(bookings_by_room_date[k2]) :
                bookings_by_room_date[k1][i].booking_id
                        = bookings_by_room_date[k2][j].booking_id
                    => (k1 = k2 /\ i = j)

---------------------------------------------------------------------------
\* C1: in every (room, date) bucket no two distinct stored bookings overlap
\* (a.start < b.end and b.start < a.end), whatever calls with start < end
\* were made.
NoOverlapInvariant ==
    \A k \in DOMAIN bookings_by_room_date :
        LET l == bookings_by_room_date[k]
        IN \A i, j \in 1..Len(l) :
               i # j => ~Intersect(l[i].start_hour, l[i].end_hour,
                                   l[j].start_hour, l[j].end_hour)

\* a bucket holds three bookings, each touching the next
C1Witness ==
    \E k \in DOMAIN bookings_by_room_date :
        LET l == bookings_by_room_date[k]
        IN /\ Len(l) = 3
           /\ l[1].end_hour = l[2].start_hour
           /\ l[2].end_hour = l[3].start_hour

\* C2: every (room, date) bucket is sorted ascending by start_hour after any
\* sequence of calls, failed updates that roll back included.
SortednessInvariant ==
    \A k \in DOMAIN bookings_by_room_date :
        AscendingByStart(bookings_by_room_date[k])

\* an update was rolled back into a bucket where a later booking follows
C2Witness ==
    /\ ret.op = "update_booking"
    /\ ~ret.ok
    /\ \E k \in DOMAIN bookings_by_room_date :
           LET l == bookings_by_room_date[k]
           IN /\ Len(l) = 2
              /\ ret.conflicts = <<l[2]>>

TouchingEndpointsAccepted ==
    CanLog =>
    \A name \in Names, room \in Rooms, d \in Dates, s \in ValidSlots :
        LET r == add_booking(Store, name, room, d, s[1], s[2])
            before == Bucket(bookings_by_room_date, room, d)
            after == Bucket(r.st.bookings, room, d)
        IN (\A b \in Range(before) :
                b.end_hour <= s[1] \/ b.start_hour >= s[2])
           => /\ r.ok
              /\ \E p \in 1..Len(after) :
                     /\ after[p].booking_id = next_id
                     /\ \A i \in 1..(p - 1) : after[i].end_hour <= s[1]
                     /\ \A i \in (p + 1)..Len(after) :
                            after[i].start_hour >= s[2]

\* an add was accepted between a booking that ends at its start and one
\* that starts at its end
C5Witness ==
    /\ ret.op = "add_booking"
    /\ ret.ok
    /\ \E k \in DOMAIN bookings_by_room_date :
           LET l == bookings_by_room_date[k]
           IN /\ Len(l) = 3
              /\ l[2].booking_id = next_id - 1
              /\ l[1].end_hour = l[2].start_hour
              /\ l[2].end_hour = l[3].start_hour

UpdateIsDeleteThenAdd ==
    CanLog =>
    \A id \in Ids, name \in Names, room \in Rooms, d \in Dates,
       s \in ValidSlots :
        LET found == find_booking(bookings_by_room_date, id)
            target == Bucket(bookings_by_room_date, room, d)
            u == update_booking(Store, id, name, room, d, s[1], s[2])
            a == add_booking(delete_booking(Store, id).st,
                             name, room, d, s[1], s[2])
        IN (/\ found # <<>>
            /\ Overlapping(target, s[1], s[2]) \ {found[1]} = {})
           => /\ u.st.bookings = a.st.bookings
              /\ u.st.next_id = a.st.next_id
              /\ Len(u.st.history) = Len(a.st.history)

\* an update went through after two adds, into a bucket that holds another
\* booking
C7Witness ==
    /\ ret.op = "update_booking"
    /\ ret.ok
    /\ next_id = 4
    /\ \E k \in DOMAIN bookings_by_room_date :
           LET l == bookings_by_room_date[k]
           IN Len(l) = 2 /\ \E p \in 1..2 : l[p].booking_id = 3

\* the stored ids are pairwise distinct and below next_id
IdsBelowNext ==
    /\ IdsDistinct
    /\ \A b \in stored(bookings_by_room_date) : b.booking_id < next_id

\* a step does not lower next_id, and a booking it stores gets an id that no
\* booking was given before (every id given so far is below next_id)
IdsFresh ==
    /\ next_id' >= next_id
    /\ \A b \in stored(bookings_by_room_date') :
           b \notin stored(bookings_by_room_date) => b.booking_id >= next_id

\* C8: stored bookings have pairwise distinct ids, each below next_id;
\* next_id never decreases; an id once given to a booking is never given to
\* another booking, also after the first was deleted.
IdsUniqueAndMonotonic == [][IdsFresh /\ IdsBelowNext']_vars

\* the bookings with ids 1 and 2 are gone and a third was added
C8Witness ==
    /\ ret.op = "add_booking"
    /\ ret.ok
    /\ next_id = 4
    /\ {b.booking_id : b \in stored(bookings_by_room_date)} = {3}

\* both strategies find the same set of conflicts in bucket k for the
\* candidate hours s
SameConflicts(k, s) ==
    LET candidate == Booking(-1, "(check)", k[1], k[2], s[1], s[2])
        blist == bookings_by_room_date[k]
    IN Range(_linear_conflicts(blist, candidate).conflicts)
           = Range(_binary_conflicts(blist, candidate).conflicts)

\* a bucket as the dialogs can build it: start < end in every booking,
\* ascending by start hour, no two bookings overlapping
WellFormed(l) ==
    /\ \A i \in 1..Len(l) : l[i].start_hour < l[i].end_hour
    /\ AscendingByStart(l)
    /\ \A i, j \in 1..Len(l) :
           i # j => ~Intersect(l[i].start_hour, l[i].end_hour,
                               l[j].start_hour, l[j].end_hour)

Invalid(room, s) == s[1] >= s[2] \/ room \notin Rooms

\* the step is the call r, and r left the store alone and failed
RejectedUntouched(r) ==
    (/\ bookings_by_room_date' = r.st.bookings
     /\ next_id' = r.st.next_id
     /\ search_history' = r.st.history)
    => (/\ ~r.ok
        /\ bookings_by_room_date' = bookings_by_room_date
        /\ next_id' = next_id)

\* C10: a create or update whose arguments are invalid (start >= end, or a
\* room outside the configured set) fails before any store mutation: no
\* bucket is created or changed, no booking stored, next_id unchanged.
ValidationRejects ==
    [][\A name \in Names, room \in Rooms \cup {UnknownRoom}, d \in Dates,
          s \in AnySlots :
           Invalid(room, s) =>
             /\ ret'.op = "add_booking" =>
                  RejectedUntouched(
                      add_booking(Store, name, room, d, s[1], s[2]))
             /\ ret'.op = "update_booking" =>
                  \A id \in Ids :
                      find_booking(bookings_by_room_date, id) # <<>> =>
                          RejectedUntouched(
                              update_booking(Store, id, name, room, d,
                                             s[1], s[2]))]_vars

\* bookings a and b share an hour h: a.start <= h < a.end and
\* b.start <= h < b.end
SharesHour(a, b) ==
    \E h \in (DAY_START_HOUR - 1)..(DAY_END_HOUR + 1) :
        /\ a.start_hour <= h /\ h < a.end_hour
        /\ b.start_hour <= h /\ h < b.end_hour

\* C11: whatever public calls are made, with any hour arguments (start >=
\* end included), no bucket is ever unsorted by start hour and no bucket ever
\* holds two bookings whose hour ranges share an hour, so no booking is
\* accepted onto a stored booking it intersects.
InvariantViolationUnreachable ==
    \A k \in DOMAIN bookings_by_room_date :
        LET l == bookings_by_room_date[k]
        IN /\ AscendingByStart(l)
           /\ \A i, j \in 1..Len(l) : i # j => ~SharesHour(l[i], l[j])

\* C12: for an id that no stored booking carries, find_booking returns None,
\* delete_booking returns False and update_booking returns (False, []), and
\* each leaves every bucket, next_id and the run history as they were.
NotFoundHandling ==
    \A id \in Ids :
        (\A b \in stored(bookings_by_room_date) : b.booking_id # id) =>
            /\ find_booking(bookings_by_room_date, id) = <<>>
            /\ delete_booking(Store, id)
                   = [st |-> Store, ok |-> FALSE, conflicts |-> <<>>]
            /\ \A name \in Names, room \in Rooms, d \in Dates,
                  s \in ValidSlots :
                   update_booking(Store, id, name, room, d, s[1], s[2])
                       = [st |-> Store, ok |-> FALSE, conflicts |-> <<>>]

\* an update named an id that is not stored, while other bookings are
C12Witness ==
    /\ ret.op = "update_booking"
    /\ ~ret.ok
    /\ ret.conflicts = <<>>
    /\ Cardinality(stored(bookings_by_room_date)) = 2

\* C13: delete_booking of a stored id returns True and removes exactly that
\* booking: find_booking no longer finds the id, every other booking keeps
\* its bucket and its place relative to the others, next_id is as before and
\* the run history gains no entry.
DeleteRemovesExactlyOne ==
    \A id \in Ids :
        LET r == delete_booking(Store, id)
            found == find_booking(bookings_by_room_date, id)
        IN found # <<>> =>
             /\ r.ok
             /\ find_booking(r.st.bookings, id) = <<>>
             /\ DOMAIN r.st.bookings = DOMAIN bookings_by_room_date
             /\ \A k \in DOMAIN bookings_by_room_date :
                    r.st.bookings[k]
                        = SelectSeq(bookings_by_room_date[k],
                                    LAMBDA b : b # found[1])
             /\ r.st.next_id = next_id
             /\ r.st.history = search_history

\* a delete took a stored booking away and left a bucket of two, with the
\* hours between them free
C13Witness ==
    /\ ret.op = "delete_booking"
    /\ ret.ok
    /\ \E k \in DOMAIN bookings_by_room_date :
           LET l == bookings_by_room_date[k]
           IN /\ Len(l) = 2
              /\ \E id \in Ids :
                     /\ id < next_id
                     /\ find_booking(bookings_by_room_date, id) = <<>>
                     /\ l[1].end_hour < l[2].start_hour

\* C14: a call of find_conflicts_for_slot or get_available_rooms leaves the
\* bucket mapping (its keys and the contents of every bucket) and the run
\* history as they were.
AvailabilityReadOnly ==
    [][ret'.op \in {"find_conflicts_for_slot", "get_available_rooms"}
           => /\ bookings_by_room_date' = bookings_by_room_date
              /\ search_history' = search_history]_vars

\* the queries that only view the store
ViewOps ==
    {"get_bookings_for_room_on_day", "get_bookings_for_day", "all_bookings",
     "utilisation_for_day", "utilisation_for_month", "suggest_next_slots",
     "find_booking"}

\* C15: get_bookings_for_room_on_day, get_bookings_for_day, all_bookings,
\* utilisation_for_day, utilisation_for_month, suggest_next_slots and
\* find_booking leave the set of bucket keys, the contents of every bucket,
\* next_id and the run history as they were, and
\* get_bookings_for_room_on_day returns the empty list for a (room, date)
\* without a bucket.
ViewsReadOnly ==
    [][/\ ret'.op \in ViewOps
            => /\ bookings_by_room_date' = bookings_by_room_date
               /\ next_id' = next_id
               /\ search_history' = search_history
       /\ \A room \in Rooms, d \in QueryDates :
              <<room, d>> \notin DOMAIN bookings_by_room_date
                  => get_bookings_for_room_on_day(Store, room, d)
                         = [st |-> Store, value |-> <<>>]]_vars

\* get_bookings_for_room_on_day returned the empty list while the only
\* bucket of the store holds bookings: it was asked for a (room, date)
\* without a bucket, and there is none afterwards
C15Witness ==
    /\ ret.op = "get_bookings_for_room_on_day"
    /\ ret.value = <<>>
    /\ Cardinality(DOMAIN bookings_by_room_date) = 1
    /\ \A k \in DOMAIN bookings_by_room_date :
           Len(bookings_by_room_date[k]) = 2

\* C16: suggest_next_slots returns at most max_suggestions entries, in every
\* state of the store and for every max_suggestions >= 0, 0 included.
SuggestionsAtMostMax ==
    \A room \in {rooms[1]}, d \in QueryDates, s \in RequestSlots,
       max_suggestions \in MaxSuggestions :
        Len(suggest_next_slots(Store, room, d, s[1], s[2],
                               max_suggestions).value) <= max_suggestions

\* the cursor of the gap walk after the first i bookings of blist: the
\* start of the day, or the greatest end hour seen if that is later
Cursor(blist, i) ==
    LET ends == {DAY_START_HOUR} \cup {blist[j].end_hour : j \in 1..i}
    IN CHOOSE c \in ends : \A e \in ends : e <= c

\* the end of the gap that follows the first i bookings of blist
GapEnd(blist, i) ==
    IF i < Len(blist) THEN blist[i + 1].start_hour ELSE DAY_END_HOUR

\* the slots of the gap walk, in the order of the gaps: gap i yields
\* (cursor, cursor + duration) exactly when it is at least duration long
\* and its cursor is not before the requested start
GapSlots(blist, start_hour, duration) ==
    LET gaps == {i \in 0..Len(blist) :
                     /\ GapEnd(blist, i) - Cursor(blist, i) >= duration
                     /\ Cursor(blist, i) >= start_hour}
        nth(n) == CHOOSE i \in gaps :
                      Cardinality({j \in gaps : j < i}) = n - 1
    IN [n \in 1..Cardinality(gaps) |->
            <<Cursor(blist, nth(n)), Cursor(blist, nth(n)) + duration>>]

\* C17: for max_suggestions >= 1 and duration = end - start > 0,
\* suggest_next_slots returns the first max_suggestions slots of the gap
\* walk over the bucket in start order, ascending; a gap that begins before
\* the requested start yields nothing; for duration <= 0 the result is
\* empty.
SuggestionsMatchGapWalk ==
    \A room \in {rooms[1]}, d \in QueryDates, s \in RequestSlots,
       max_suggestions \in MaxSuggestions \ {0} :
        LET value == suggest_next_slots(Store, room, d, s[1], s[2],
                                        max_suggestions).value
            blist == sort_by_start(Bucket(bookings_by_room_date, room, d))
            slots == GapSlots(blist, s[1], s[2] - s[1])
        IN IF s[2] - s[1] <= 0
           THEN value = <<>>
           ELSE /\ value = SubSeq(slots, 1,
                                  py_min(max_suggestions, Len(slots)))
                /\ \A i, j \in 1..Len(value) :
                       i < j => value[i][1] < value[j][1]

\* a request of one hour got only the hour after the two bookings of the
\* bucket, although the hour before them is free: that gap begins before
\* the requested start
C17Witness ==
    /\ ret.op = "suggest_next_slots"
    /\ \E k \in DOMAIN bookings_by_room_date :
           LET l == bookings_by_room_date[k]
           IN /\ Len(l) = 2
              /\ l[1].start_hour > DAY_START_HOUR
              /\ ret.value = <<<<l[2].end_hour, l[2].end_hour + 1>>>>

\* the hours booked by the bookings of the set S
RECURSIVE HoursOf(_)
HoursOf(S) ==
    IF S = {}
    THEN 0
    ELSE LET b == CHOOSE b \in S : TRUE
         IN (b.end_hour - b.start_hour) + HoursOf(S \ {b})

\* r is an integer nearest to 100 * hours / capacity
Nearest(r, hours, capacity) ==
    LET diff == capacity * r - 100 * hours
    IN 2 * diff <= capacity /\ 2 * (-diff) <= capacity

\* p clamped to [0, 100]
Clamped(p) == IF p < 0 THEN 0 ELSE IF p > 100 THEN 100 ELSE p

\* the integers nearest to 100 * hours / capacity: one, or the two
\* neighbours of an exact half
NearestPercents(hours, capacity) ==
    LET q == (100 * hours) \div capacity
    IN {r \in {q, q + 1} : Nearest(r, hours, capacity)}

\* the stored bookings of a room on a date, and in a month
BookedOn(room, d) ==
    {b \in stored(bookings_by_room_date) :
         b.room = room /\ b.booking_date = d}
BookedIn(room, m) ==
    {b \in stored(bookings_by_room_date) :
         /\ b.room = room
         /\ b.booking_date[1] = m[1]
         /\ b.booking_date[2] = m[2]}

\* C18: utilisation_for_day and utilisation_for_month return an integer in
\* [0, 100] whatever the buckets hold (bookings that overlap or lie outside
\* the working day, hours that sum above the capacity or below zero), and 0
\* when the bucket, or every bucket of the room in the month, is empty or
\* absent.
UtilisationBounds ==
    /\ \A room \in Rooms, d \in UtilDates :
           LET value == utilisation_for_day(Store, d, room).value
           IN /\ value \in 0..100
              /\ BookedOn(room, d) = {} => value = 0
    /\ \A room \in Rooms, m \in UtilMonths :
           LET value == utilisation_for_month(Store, m[1], m[2], room).value
           IN /\ value \in 0..100
              /\ BookedIn(room, m) = {} => value = 0

\* utilisation_for_day returned 100 for a store whose every booking is
\* longer than the working day
C18Witness ==
    /\ ret.op = "utilisation_for_day"
    /\ ret.value = 100
    /\ stored(bookings_by_room_date) # {}
    /\ \A b \in stored(bookings_by_room_date) :
           b.end_hour - b.start_hour > DAY_END_HOUR - DAY_START_HOUR

\* C19: utilisation_for_day(date, room) is 100 * (the sum of end_hour -
\* start_hour over the bookings of the bucket) / 12, rounded to the nearest
\* integer and clamped to [0, 100]: two bookings of one hour give 17, a
\* bucket that covers 7 to 19 gives 100.
UtilisationForDayFormula ==
    \A room \in Rooms, d \in UtilDates :
        LET value == utilisation_for_day(Store, d, room).value
            hours == HoursOf(BookedOn(room, d))
        IN {value} = {Clamped(r) : r \in NearestPercents(hours, 12)}

\* utilisation_for_day returned 17 for a store that holds two bookings of
\* one hour in one bucket and nothing else
C19Witness ==
    /\ ret.op = "utilisation_for_day"
    /\ ret.value = 17
    /\ \E k \in DOMAIN bookings_by_room_date :
           /\ Len(bookings_by_room_date[k]) = 2
           /\ stored(bookings_by_room_date)
                  = Range(bookings_by_room_date[k])
           /\ \A b \in Range(bookings_by_room_date[k]) :
                  b.end_hour - b.start_hour = 1

\* C20 as stated: utilisation_for_month(year, month, room) is 100 * (the
\* hours of that room booked on the dates of that year and month) /
\* (days in the month * 12), rounded to the nearest integer with an exact
\* half rounded up, then clamped to [0, 100]; bookings of other rooms or
\* other months do not count.
UtilisationForMonthHalfUp ==
    \A room \in Rooms, m \in UtilMonths :
        LET value == utilisation_for_month(Store, m[1], m[2], room).value
            hours == HoursOf(BookedIn(room, m))
            capacity == days_in_month(m[1], m[2]) * 12
        IN value = Clamped((200 * hours + capacity) \div (2 * capacity))

\* C20 (amended): utilisation_for_month(year, month, room) is an integer
\* nearest to 100 * (the hours of that room booked on the dates of that
\* year and month) / (days in the month * 12), clamped to [0, 100]; an
\* exact half goes to one of its two neighbours, not always the upper one;
\* bookings of other rooms or other months do not count.
UtilisationForMonthFormula ==
    \A room \in Rooms, m \in UtilMonths :
        LET value == utilisation_for_month(Store, m[1], m[2], room).value
            hours == HoursOf(BookedIn(room, m))
            capacity == days_in_month(m[1], m[2]) * 12
        IN value \in {Clamped(r) : r \in NearestPercents(hours, capacity)}

\* utilisation_for_month returned 2 for a room with nine hours booked in a
\* month of 30 days, 2.5 percent, and twelve hours in the next month
C20Witness ==
    /\ ret.op = "utilisation_for_month"
    /\ ret.value = 2
    /\ HoursOf(BookedIn(rooms[1], <<2023, 4>>)) = 9
    /\ HoursOf(BookedIn(rooms[1], <<2023, 5>>)) = 12

BinarySearchCorrect ==
    ret.op = "binary_search" =>
        LET sequence == ret.value[1]
            item == ret.value[2]
            found == ret.value[3][1]
            k == ret.value[3][2]
        IN IF \E i \in 1..Len(sequence) : sequence[i] = item
           THEN /\ found \in 0..(Len(sequence) - 1)
                /\ sequence[found + 1] = item
           ELSE /\ found = -1
                /\ k \in 0..Len(sequence)
                /\ \A i \in 1..k : sequence[i] < item
                /\ \A i \in (k + 1)..Len(sequence) : sequence[i] > item

\* binary_search missed a target that belongs between equal items and a
\* greater one
C22Witness ==
    /\ ret.op = "binary_search"
    /\ ret.value[3][1] = -1
    /\ ret.value[3][2] = 2
    /\ Len(ret.value[1]) = 3
    /\ ret.value[1][1] = ret.value[1][2]

\* the iterations of the loop of binary_search on the indices lo..hi
RECURSIVE Iterations(_, _, _, _)
Iterations(sequence, item, lo, hi) ==
    IF lo > hi
    THEN 0
    ELSE LET mid == (lo + hi) \div 2
         IN IF sequence[mid + 1] = item THEN 1
            ELSE IF sequence[mid + 1] < item
                 THEN 1 + Iterations(sequence, item, mid + 1, hi)
                 ELSE 1 + Iterations(sequence, item, lo, mid - 1)

\* C23: binary_search reports one comparison per iteration of its loop, 0
\* for an empty sequence and at least 1 for a non-empty one; linear_search
\* reports one comparison per element examined: index + 1 when the target
\* is found at the index of its first occurrence, len(sequence) when it is
\* absent.
SearchCountsExact ==
    /\ ret.op = "binary_search" =>
           LET sequence == ret.value[1]
               comparisons == ret.value[3][3]
           IN /\ comparisons
                     = Iterations(sequence, ret.value[2], 0, Len(sequence) - 1)
              /\ sequence = <<>> => comparisons = 0
              /\ sequence # <<>> => comparisons >= 1
    /\ ret.op = "linear_search" =>
           LET sequence == ret.value[1]
               item == ret.value[2]
               index == ret.value[3][1]
               comparisons == ret.value[3][2]
           IN IF \E i \in 1..Len(sequence) : sequence[i] = item
              THEN /\ index \in 0..(Len(sequence) - 1)
                   /\ sequence[index + 1] = item
                   /\ \A i \in 1..index : sequence[i] # item
                   /\ comparisons = index + 1
              ELSE /\ index = -1
                   /\ comparisons = Len(sequence)

\* linear_search found the target at index 1 with two comparisons, the
\* target standing once more behind it
C23Witness ==
    /\ ret.op = "linear_search"
    /\ ret.value[3] = <<1, 2>>
    /\ Len(ret.value[1]) = 3
    /\ ret.value[1][3] = ret.value[2]

\* the store st2 holds the bookings and the next id of the present store,
\* and its run history is the present one with k "check_availability"
\* entries behind it
ProbedOnly(st2, k) ==
    /\ \A key \in DOMAIN bookings_by_room_date :
           /\ key \in DOMAIN st2.bookings
           /\ st2.bookings[key] = bookings_by_room_date[key]
    /\ \A key \in DOMAIN st2.bookings : Range(st2.bookings[key]) \subseteq
           Range(Bucket(bookings_by_room_date, key[1], key[2]))
    /\ st2.next_id = next_id
    /\ Len(st2.history) = Len(search_history) + k
    /\ SubSeq(st2.history, 1, Len(search_history)) = search_history
    /\ \A i \in (Len(search_history) + 1)..Len(st2.history) :
           st2.history[i].operation = "check_availability"

SameOutcome(r1, r2) ==
    /\ r1.ok = r2.ok
    /\ r1.conflicts = r2.conflicts
    /\ r1.st.bookings = r2.st.bookings
    /\ r1.st.next_id = r2.st.next_id
    /\ r1.st.history = r2.st.history

Appended(h, h2, k) ==
    /\ Len(h2) = Len(h) + k
    /\ SubSeq(h2, 1, Len(h)) = h

\* C25: every add_booking call appends exactly one entry with operation
\* "add_booking" to the run history, accepted or rejected; every
\* update_booking call on an existing id appends exactly one entry, whether
\* it succeeds or rolls back; no call removes or alters an entry, so the
\* history never gets shorter.
HistoryAppendOnly ==
    /\ \A name \in Names, room \in Rooms, d \in Dates, s \in ValidSlots :
           /\ LET r == add_booking(Store, name, room, d, s[1], s[2])
              IN /\ Appended(search_history, r.st.history, 1)
                 /\ r.st.history[Len(r.st.history)].operation = "add_booking"
           /\ \A id \in Ids :
                  LET r == update_booking(Store, id, name, room, d,
                                          s[1], s[2])
                  IN IF find_booking(bookings_by_room_date, id) # <<>>
                     THEN Appended(search_history, r.st.history, 1)
                     ELSE r.st.history = search_history
           /\ Appended(search_history,
                       find_conflicts_for_slot(Store, room, d,
                                               s[1], s[2]).st.history, 1)
           /\ Appended(search_history,
                       get_available_rooms(Store, d, s[1], s[2]).st.history,
                       Len(rooms))
    /\ \A id \in Ids : delete_booking(Store, id).st.history = search_history

\* add_booking has rejected a candidate and has logged the run
C25Witness ==
    /\ ret.op = "add_booking"
    /\ ~ret.ok
    /\ ret.conflicts # <<>>
    /\ search_history # <<>>
    /\ LET e == search_history[Len(search_history)]
       IN /\ e.operation = "add_booking"
          /\ e.n = Len(Bucket(bookings_by_room_date, ret.conflicts[1].room,
                              ret.conflicts[1].booking_date))
          /\ e.n > 0

\* the size of the (room, date) bucket when the call's conflict check runs:
\* the booking named by skip, when it lies in that bucket, is out by then
SizeAtCheck(room, d, skip) ==
    Cardinality({i \in 1..Len(Bucket(bookings_by_room_date, room, d)) :
                     Bucket(bookings_by_room_date, room, d)[i].booking_id
                         # skip})

\* C27: the entry a call logs records as n the size of the (room, date)
\* bucket at the moment of the conflict check, before any insertion; for an
\* update_booking that is the size after the old booking was taken out of
\* its bucket; linear_comparisons equals n in every entry of the history.
HistoryRecordsBucketSize ==
    /\ \A i \in 1..Len(search_history) :
           search_history[i].linear_comparisons = search_history[i].n
    /\ \A name \in Names, room \in Rooms, d \in Dates, s \in ValidSlots :
           /\ LET h == add_booking(Store, name, room, d, s[1], s[2]).st.history
              IN /\ h[Len(h)].n = SizeAtCheck(room, d, 0)
                 /\ h[Len(h)].linear_comparisons = h[Len(h)].n
           /\ LET h == find_conflicts_for_slot(Store, room, d,
                                               s[1], s[2]).st.history
              IN /\ h[Len(h)].n = SizeAtCheck(room, d, 0)
                 /\ h[Len(h)].linear_comparisons = h[Len(h)].n
           /\ \A id \in Ids :
                  find_booking(bookings_by_room_date, id) # <<>> =>
                      LET h == update_booking(Store, id, name, room, d,
                                              s[1], s[2]).st.history
                      IN /\ h[Len(h)].n = SizeAtCheck(room, d, id)
                         /\ h[Len(h)].linear_comparisons = h[Len(h)].n

\* update_booking has moved a booking within the only bucket there is, which
\* holds two bookings: the entry logged says n = 1
C27Witness ==
    /\ ret.op = "update_booking"
    /\ ret.ok
    /\ search_history # <<>>
    /\ search_history[Len(search_history)].n = 1
    /\ Cardinality(DOMAIN bookings_by_room_date) = 1
    /\ \A k \in DOMAIN bookings_by_room_date :
           Len(bookings_by_room_date[k]) = 2

\* the bookings the leftward scan inspects, from position idx down to the
\* first booking that ends by the candidate's start, that booking included
LeftInspected(blist, candidate, idx) ==
    LET stop == {j \in 1..idx : blist[j].end_hour <= candidate.start_hour}
    IN IF stop = {} THEN idx
       ELSE idx - (CHOOSE j \in stop : \A h \in stop : h <= j) + 1

\* the bookings the rightward scan inspects, from position idx + 1 up to the
\* first booking that starts at or after the candidate's end, that booking
\* included
RightInspected(blist, candidate, idx) ==
    LET stop == {j \in (idx + 1)..Len(blist) :
                     blist[j].start_hour >= candidate.end_hour}
    IN IF stop = {} THEN Len(blist) - idx
       ELSE (CHOOSE j \in stop : \A h \in stop : j <= h) - idx

\* C28: the count _binary_conflicts returns is the comparison count of
\* binary_search on the bucket's start hours, plus the bookings inspected
\* by the leftward scan, plus those inspected by the rightward scan, the
\* booking that ends a scan counted as one inspection.
BinaryComparisonCount ==
    \A k \in DOMAIN bookings_by_room_date, s \in AnySlots :
        LET blist == bookings_by_room_date[k]
            candidate == Booking(next_id, "Team Sync", k[1], k[2], s[1], s[2])
            starts == [i \in 1..Len(blist) |-> blist[i].start_hour]
            found == binary_search(starts, s[1])
        IN _binary_conflicts(blist, candidate).comps
               = found[3] + LeftInspected(blist, candidate, found[2])
                          + RightInspected(blist, candidate, found[2])

\* a bucket of three on which a candidate's scans both end on a booking:
\* one inspection to the left, two to the right
C28Witness ==
    \E k \in DOMAIN bookings_by_room_date, s \in ValidSlots :
        LET blist == bookings_by_room_date[k]
            candidate == Booking(next_id, "Team Sync", k[1], k[2], s[1], s[2])
            starts == [i \in 1..Len(blist) |-> blist[i].start_hour]
            found == binary_search(starts, s[1])
        IN /\ Len(blist) = 3
           /\ blist[1].end_hour <= s[1]
           /\ blist[3].start_hour >= s[2]
           /\ _binary_conflicts(blist, candidate).comps = found[3] + 3
           /\ ret.op = "add_booking"
           /\ ret.ok

DateBefore(d1, d2) ==
    \/ d1[1] < d2[1]
    \/ d1[1] = d2[1] /\ d1[2] < d2[2]
    \/ d1[1] = d2[1] /\ d1[2] = d2[2] /\ d1[3] < d2[3]

\* room r1 stands before room r2 in the order of their names
RoomBefore(r1, r2) ==
    \E i, j \in 1..Len(AllRooms) :
        AllRooms[i] = r1 /\ AllRooms[j] = r2 /\ i < j

\* booking a comes before booking b by (room, start hour)
BeforeInDay(a, b) ==
    \/ RoomBefore(a.room, b.room)
    \/ a.room = b.room /\ a.start_hour < b.start_hour

\* booking a comes before booking b by (date, room, start hour)
BeforeInAll(a, b) ==
    \/ DateBefore(a.booking_date, b.booking_date)
    \/ a.booking_date = b.booking_date /\ BeforeInDay(a, b)

\* C26: all_bookings returns every stored booking exactly once, ascending by
\* (date, room, start hour); get_bookings_for_day(date) returns exactly the
\* stored bookings of that date, each once, ascending by (room, start hour).
ListsCompleteAndOrdered ==
    /\ LET out == all_bookings(Store).value
       IN /\ Range(out) = stored(bookings_by_room_date)
          /\ Len(out) = Cardinality(stored(bookings_by_room_date))
          /\ \A i, j \in 1..Len(out) : i < j => BeforeInAll(out[i], out[j])
    /\ \A d \in ListDates \cup Dates :
           LET out == get_bookings_for_day(Store, d).value
               ofDay == {b \in stored(bookings_by_room_date) :
                             b.booking_date = d}
           IN /\ Range(out) = ofDay
              /\ Len(out) = Cardinality(ofDay)
              /\ \A i, j \in 1..Len(out) : i < j => BeforeInDay(out[i], out[j])

\* all_bookings has returned three bookings of two rooms and two dates, the
\* booking made last in front
C26Witness ==
    /\ ret.op = "all_bookings"
    /\ Len(ret.value) = 3
    /\ ret.value[1].booking_id = 3
    /\ ret.value[1].booking_date # ret.value[3].booking_date
    /\ ret.value[1].room # ret.value[2].room
    /\ ret.value[1].booking_date = ret.value[2].booking_date

\* C31: compare_search_algorithms(sizes, target) returns one entry per size,
\* in the order of sizes, and the value searched for size n is the caller's
\* target when target < n and n - 1 when target >= n, whatever sizes were
\* processed before.
CompareTargetsIndependent ==
    ret.op = "compare_search_algorithms" =>
        LET sizes == ret.value[1]
            target == ret.value[2]
            results == ret.value[3]
        IN /\ Len(results) = Len(sizes)
           /\ \A i \in 1..Len(sizes) :
                  /\ results[i].n = sizes[i]
                  /\ results[i].target
                         = IF target < sizes[i] THEN target ELSE sizes[i] - 1

\* C32: benchmark_searches(n) searches the last element of 0..n-1: for
\* n >= 1 linear_comparisons is n and binary_comparisons lies between 1 and
\* linear_comparisons; for n = 0 both counts are 0.
BenchmarkCounts ==
    ret.op = "benchmark_searches" =>
        LET n == ret.value[1]
            r == ret.value[2]
        IN IF n >= 1
           THEN /\ r.linear_comparisons = n
                /\ r.binary_comparisons >= 1
                /\ r.binary_comparisons <= r.linear_comparisons
           ELSE /\ r.linear_comparisons = 0
                /\ r.binary_comparisons = 0

\* benchmark_searches(4): four linear comparisons, three binary ones
C32Witness ==
    /\ ret.op = "benchmark_searches"
    /\ ret.value[1] = 4
    /\ ret.value[2].linear_comparisons = 4
    /\ ret.value[2].binary_comparisons = 3

\* C33: on a store whose bookings satisfy 7 <= start < end <= 19, every slot
\* (s, e) suggest_next_slots returns is bookable: e - s is the requested
\* duration, 7 <= s, e <= 19, s is not before the requested start,
\* find_conflicts_for_slot finds no conflict for it and an add_booking for
\* it succeeds; the slots are strictly ascending and do not overlap one
\* another.
SuggestionsBookable ==
    \A room \in {rooms[1]}, d \in QueryDates, s \in RequestSlots,
       max_suggestions \in MaxSuggestions :
        LET v == suggest_next_slots(Store, room, d, s[1], s[2],
                                    max_suggestions).value
        IN /\ \A i \in 1..Len(v) :
                  /\ v[i][2] - v[i][1] = s[2] - s[1]
                  /\ DAY_START_HOUR <= v[i][1]
                  /\ v[i][2] <= DAY_END_HOUR
                  /\ v[i][1] >= s[1]
                  /\ find_conflicts_for_slot(Store, room, d, v[i][1],
                                             v[i][2]).conflicts = <<>>
                  /\ add_booking(Store, "Team Sync", room, d, v[i][1],
                                 v[i][2]).ok
           /\ \A i, j \in 1..Len(v) :
                  i < j => v[i][1] < v[j][1] /\ v[i][2] <= v[j][1]

\* two slots were suggested, one before and one after a stored booking
C33Witness ==
    /\ ret.op = "suggest_next_slots"
    /\ Len(ret.value) = 2
    /\ \E k \in DOMAIN bookings_by_room_date :
           \E b \in Range(bookings_by_room_date[k]) :
               /\ ret.value[1][2] <= b.start_hour
               /\ b.end_hour <= ret.value[2][1]

\* the bookings of the bucket of booking b, other than b, that overlap [s, e)
OthersOverlapping(b, s, e) ==
    {o \in Overlapping(Bucket(bookings_by_room_date, b.room, b.booking_date),
                       s, e) : o.booking_id # b.booking_id}

\* C34: update_booking(id, ...) to a new slot in the booking's own (room,
\* date) bucket succeeds when the new slot overlaps no stored booking but
\* the booking's own current hours, because the old booking is out of the
\* bucket when the conflict check runs.
UpdateOverOwnSlot ==
    \A b \in stored(bookings_by_room_date), s \in LogSlots :
        (/\ Intersect(b.start_hour, b.end_hour, s[1], s[2])
         /\ OthersOverlapping(b, s[1], s[2]) = {})
            => LET r == update_booking(Store, b.booking_id, b.name, b.room,
                                       b.booking_date, s[1], s[2])
               IN /\ r.ok
                  /\ r.conflicts = <<>>
                  /\ \E n \in stored(r.st.bookings) :
                         /\ n.room = b.room
                         /\ n.booking_date = b.booking_date
                         /\ n.start_hour = s[1]
                         /\ n.end_hour = s[2]

\* update_booking has resized the only booking there is over its own hours:
\* the one bucket holds one booking of two hours, which the update stored,
\* and both runs logged (the add and the update) met an empty bucket
C34Witness ==
    /\ ret.op = "update_booking"
    /\ ret.ok
    /\ next_id = 3
    /\ Len(search_history) = 2
    /\ \A i \in 1..2 : search_history[i].n = 0
    /\ Cardinality(DOMAIN bookings_by_room_date) = 1
    /\ \A k \in DOMAIN bookings_by_room_date :
           /\ Len(bookings_by_room_date[k]) = 1
           /\ bookings_by_room_date[k][1].end_hour
                  - bookings_by_room_date[k][1].start_hour = 2

\* C35: a successful update_booking(id, ...) stores the updated booking
\* under the id that next_id held before the call and advances next_id by
\* one; no booking carries the old id afterwards and the number of stored
\* bookings is unchanged; a failed update leaves the booking under its id,
\* with its fields, and leaves next_id alone.
UpdateTakesFreshId ==
    \A b \in stored(bookings_by_room_date), room \in Rooms, d \in Dates,
       s \in LogSlots :
        LET r == update_booking(Store, b.booking_id, b.name, room, d,
                                s[1], s[2])
        IN IF r.ok
           THEN /\ find_booking(r.st.bookings, next_id)
                       = <<Booking(next_id, b.name, room, d, s[1], s[2])>>
                /\ r.st.next_id = next_id + 1
                /\ find_booking(r.st.bookings, b.booking_id) = <<>>
                /\ Cardinality(stored(r.st.bookings))
                       = Cardinality(stored(bookings_by_room_date))
           ELSE /\ find_booking(r.st.bookings, b.booking_id) = <<b>>
                /\ r.st.next_id = next_id
                /\ stored(r.st.bookings) = stored(bookings_by_room_date)

\* update_booking has succeeded on the first booking made while a second
\* one is stored: the ids stored are 2 and 3, and next_id is 4
C35Witness ==
    /\ ret.op = "update_booking"
    /\ ret.ok
    /\ next_id = 4
    /\ {b.booking_id : b \in stored(bookings_by_room_date)} = {2, 3}

\* the store with every bucket emptied but those of the keys in keep
Isolated(keep) ==
    [Store EXCEPT !.bookings =
        [k \in DOMAIN bookings_by_room_date |->
            IF k \in keep THEN bookings_by_room_date[k] ELSE <<>>]]

\* the buckets of the keys outside keep are in the dict bookings2 as they
\* are in the store, and bookings2 has no new key outside keep
OnlyTouched(bookings2, keep) ==
    /\ DOMAIN bookings2 \subseteq DOMAIN bookings_by_room_date \cup keep
    /\ \A k \in DOMAIN bookings_by_room_date \ keep :
           k \in DOMAIN bookings2 /\ bookings2[k] = bookings_by_room_date[k]

\* C36: an add_booking, accepted or rejected, changes no bucket but the
\* (room, date) bucket it names; a successful update_booking changes only
\* the booking's old bucket and the new (room, date) bucket; the bookings
\* of other rooms and of other dates have no part in the outcome: the call
\* returns what it returns when those buckets are empty.
MutationsBucketLocal ==
    \A name \in Names, room \in Rooms, d \in ListDates, s \in ListSlots :
        /\ LET r == add_booking(Store, name, room, d, s[1], s[2])
               alone == add_booking(Isolated({<<room, d>>}), name, room, d,
                                    s[1], s[2])
           IN /\ OnlyTouched(r.st.bookings, {<<room, d>>})
              /\ r.ok = alone.ok
              /\ r.conflicts = alone.conflicts
        /\ \A b \in stored(bookings_by_room_date) :
               LET keys == {<<room, d>>, <<b.room, b.booking_date>>}
                   r == update_booking(Store, b.booking_id, name, room, d,
                                       s[1], s[2])
                   alone == update_booking(Isolated(keys), b.booking_id,
                                           name, room, d, s[1], s[2])
               IN /\ r.ok => OnlyTouched(r.st.bookings, keys)
                  /\ r.ok = alone.ok
                  /\ r.conflicts = alone.conflicts

\* add_booking has accepted a booking whose hours are taken in the other
\* room on the same date and in the same room on the other date
C36Witness ==
    /\ ret.op = "add_booking"
    /\ ret.ok
    /\ \E b \in stored(bookings_by_room_date) :
           /\ b.booking_id = next_id - 1
           /\ \E o \in stored(bookings_by_room_date) :
                  /\ o.room # b.room
                  /\ o.booking_date = b.booking_date
                  /\ o.start_hour = b.start_hour
           /\ \E o \in stored(bookings_by_room_date) :
                  /\ o.room = b.room
                  /\ o.booking_date # b.booking_date
                  /\ o.start_hour = b.start_hour

FloorLog2(n) == CHOOSE k \in 0..n : 2^k <= n /\ n < 2^(k + 1)

\* C38: binary_search terminates on every finite sequence, sorted or not:
\* from one test of the loop condition to the next, end_index - start_index
\* gets strictly smaller, and on a sequence of n >= 1 items the loop makes
\* at most floor(log2(n)) + 1 comparisons.
BinarySearchTerminates ==
    ret.op = "binary_search" =>
        LET sequence == ret.value[1]
            comparisons == ret.value[3][3]
            trace == binary_search_trace(sequence, ret.value[2], 0,
                                         Len(sequence) - 1)
        IN /\ \A i \in 1..(Len(trace) - 1) :
                  trace[i + 1][2] - trace[i + 1][1] < trace[i][2] - trace[i][1]
           /\ comparisons \in {Len(trace) - 1, Len(trace)}
           /\ Len(sequence) >= 1 =>
                  comparisons <= FloorLog2(Len(sequence)) + 1

\* binary_search has made floor(log2(3)) + 1 = 2 comparisons on a sequence
\* of three items that is not ascending and does not hold the target
C38Witness ==
    /\ ret.op = "binary_search"
    /\ Len(ret.value[1]) = 3
    /\ ret.value[1][1] > ret.value[1][2]
    /\ ret.value[3][1] = -1
    /\ ret.value[3][3] = 2

\* the hour pairs of the candidates a scan is followed for: the pairs the
\* dialogs pass on and the hour behind them
ScanSlots == ValidSlots \cup {<<DAY_START_HOUR + 3, DAY_START_HOUR + 4>>}

\* C39: in a bucket that is sorted, free of overlaps and holds bookings with
\* start < end, and for a candidate with start < end, the leftward scan of
\* _binary_conflicts inspects at most two bookings and collects at most one
\* conflict, and the conflicts returned are ascending by start hour, in the
\* order _linear_conflicts returns them.
LeftScanShort ==
    \A k \in DOMAIN bookings_by_room_date, s \in ScanSlots :
        LET blist == bookings_by_room_date[k]
            candidate == Booking(next_id, "Team Sync", k[1], k[2], s[1], s[2])
            bin == _binary_conflicts(blist, candidate)
            left == scan_left(blist, candidate, bin.idx - 1, <<>>, 0)
        IN WellFormed(blist) =>
               /\ left.extra <= 2
               /\ Len(left.conflicts) <= 1
               /\ bin.comps = binary_search([i \in 1..Len(blist) |->
                                                 blist[i].start_hour],
                                            s[1])[3]
                                  + left.extra
                                  + RightInspected(blist, candidate, bin.idx)
               /\ AscendingByStart(bin.conflicts)
               /\ bin.conflicts = _linear_conflicts(blist, candidate).conflicts

\* a bucket and a candidate for which the leftward scan inspects two
\* bookings and collects the first of them
C39Witness ==
    /\ ret.op = "add_booking"
    /\ \E k \in DOMAIN bookings_by_room_date, s \in ScanSlots :
           LET blist == bookings_by_room_date[k]
               candidate == Booking(next_id, "Team Sync", k[1], k[2],
                                    s[1], s[2])
               bin == _binary_conflicts(blist, candidate)
               left == scan_left(blist, candidate, bin.idx - 1, <<>>, 0)
           IN /\ WellFormed(blist)
              /\ Len(blist) = 2
              /\ left.extra = 2
              /\ Len(left.conflicts) = 1
              /\ bin.conflicts = <<blist[2]>>

\* C40: Booking.overlaps is symmetric, false whenever the two bookings
\* differ in room or in date, and for bookings of one room and date true
\* exactly when a.start < b.end and b.start < a.end.
OverlapsSymmetricHalfOpen ==
    ret.op = "overlaps" =>
        LET a == ret.value[1]
            b == ret.value[2]
            result == ret.value[3]
        IN /\ result = overlaps(b, a)
           /\ (a.room # b.room \/ a.booking_date # b.booking_date)
                  => ~result
           /\ (a.room = b.room /\ a.booking_date = b.booking_date)
                  => (result <=> (/\ a.start_hour < b.end_hour
                                  /\ b.start_hour < a.end_hour))

\* overlaps has answered false for a two-hour booking and the empty range
\* at its start, in the same room on the same date
C40Witness ==
    /\ ret.op = "overlaps"
    /\ ~ret.value[3]
    /\ ret.value[1].room = ret.value[2].room
    /\ ret.value[1].booking_date = ret.value[2].booking_date
    /\ ret.value[1].end_hour = ret.value[1].start_hour + 2
    /\ ret.value[2].start_hour = ret.value[1].start_hour
    /\ ret.value[2].end_hour = ret.value[2].start_hour

=============================================================================
